---- MODULE Spec2Model ----
(***************************************************************************)
(* Verification model of the index generator plugin:                       *)
(*   - the region patcher of utils/fileUtils.ts,                           *)
(*   - the folder scanner and list renderer of utils/indexGenerator.ts,    *)
(*   - the reconciliation driver and vault event handlers of main.ts.      *)
(*                                                                         *)
(* Strings are sequences of tokens.  A token is one character ("#", " ",   *)
(* "\n", "0", ...) or one indivisible word ("Contents", "Notes", ...);     *)
(* offsets are 0-based as in JavaScript.                                   *)
(***************************************************************************)
EXTENDS Integers, Sequences, FiniteSets, TLC

VARIABLES
    patchLog,   \* region patcher: <<text, merge(text), merge(merge(text))>>
    content,    \* region patcher: the content handed to replaceMarkedSection
    files,      \* vault: the markdown documents, [path, content], in enumeration order
    folders,    \* vault: the set of folder paths, the root <<>> included
    settings,   \* plugin.settings
    tasks,      \* the handler and command invocations suspended at an await
    hist,       \* the last completed reconciliation passes (updateIndexFile calls)
    notice,     \* the last Notice shown
    threw,      \* the invocations that ended with an uncaught exception
    nEvents,    \* number of user actions so far
    origin,     \* the documents as they were at start
    window,     \* how many completed passes hist remembers
    scan        \* folder scanner and pattern matcher: the last call and its result

vars == <<patchLog, content, files, folders, settings, tasks, hist, notice, threw, nEvents,
          origin, window, scan>>

vaultVars == <<files, folders, settings, tasks, hist, notice, threw, nEvents, origin, window,
               scan>>

(***************************************************************************)
(* Bounds                                                                  *)
(***************************************************************************)
MaxPieces == 5      \* pieces a generated document text is made of
MaxMerges == 2      \* successive merges applied to one text
MaxEvents == 2      \* user actions (create, delete, rename, command) in one run
MaxDocPieces == 4   \* pieces of the initial text of the reconciled document
MaxScanDocs == 4    \* documents in a scanned tree
MaxYamlLines == 2   \* lines of the front-matter block of a document text

(***************************************************************************)
(* JavaScript string primitives on token sequences                         *)
(***************************************************************************)
NL == "\n"

Null == <<"null">>

MinOf(S) == CHOOSE x \in S : \A y \in S : x <= y

IsSpace(c) == c \in {" ", NL}

indexOf(s, sub) ==
    LET hits == {i \in 0..(Len(s) - Len(sub)) : SubSeq(s, i + 1, i + Len(sub)) = sub}
    IN  IF hits = {} THEN -1 ELSE MinOf(hits)

substring(s, a, b) == SubSeq(s, a + 1, b)

substringFrom(s, a) == SubSeq(s, a + 1, Len(s))

trimEnd(s) ==
    LET keep == {i \in 1..Len(s) : ~IsSpace(s[i])}
    IN  IF keep = {} THEN <<>> ELSE SubSeq(s, 1, CHOOSE i \in keep : \A j \in keep : j <= i)

trimStart(s) ==
    LET keep == {i \in 1..Len(s) : ~IsSpace(s[i])}
    IN  IF keep = {} THEN <<>> ELSE SubSeq(s, MinOf(keep), Len(s))

trim(s) == trimStart(trimEnd(s))

(***************************************************************************)
(* utils/fileUtils.ts                                                      *)
(***************************************************************************)
CONTENTS_HEADING == <<"#", "#", " ", "Contents">>

formatContentsSection(c) == CONTENTS_HEADING \o <<NL, NL>> \o c

\* /\n(#{1,6}\s)/ matches s at 0-based offset i
nextHeadingAt(s, i) ==
    /\ i + 1 <= Len(s)
    /\ s[i + 1] = NL
    /\ \E k \in 1..6 :
          /\ i + 1 + k + 1 <= Len(s)
          /\ \A j \in 1..k : s[i + 1 + j] = "#"
          /\ IsSpace(s[i + 1 + k + 1])

\* String.prototype.match without the g flag: offset of the first match, -1 if none
nextHeadingMatch(s) ==
    LET hits == {i \in 0..(Len(s) - 1) : nextHeadingAt(s, i)}
    IN  IF hits = {} THEN -1 ELSE MinOf(hits)

findSectionEnd_skipNewline(fileContent, startAfterHeading) ==
    LET idx == nextHeadingMatch(substringFrom(fileContent, startAfterHeading))
    IN  IF idx # -1 THEN startAfterHeading + idx + 1 ELSE Len(fileContent)

findSectionEnd(fileContent, startAfterHeading) ==
    LET idx == nextHeadingMatch(substringFrom(fileContent, startAfterHeading))
    IN  IF idx # -1 THEN startAfterHeading + idx ELSE Len(fileContent)

extractMarkedSection_fromHeading(fileContent) ==
    LET headingIdx == indexOf(fileContent, CONTENTS_HEADING)
    IN  IF headingIdx = -1 THEN Null
        ELSE trim(substring(fileContent, headingIdx, findSectionEnd(fileContent, headingIdx)))

extractMarkedSection(fileContent) ==
    LET headingIdx   == indexOf(fileContent, CONTENTS_HEADING)
        contentStart == headingIdx + Len(CONTENTS_HEADING)
        sectionEnd   == findSectionEnd(fileContent, contentStart)
    IN  IF headingIdx = -1 THEN Null
        ELSE trim(substring(fileContent, contentStart, sectionEnd))

replaceMarkedSection_dropBefore(fileContent, newListContent) ==
    LET formatted    == formatContentsSection(newListContent)
        headingIdx   == indexOf(fileContent, CONTENTS_HEADING)
        trimmed      == trimEnd(fileContent)
        contentStart == headingIdx + Len(CONTENTS_HEADING)
        sectionEnd   == findSectionEnd(fileContent, contentStart)
    IN  IF headingIdx = -1
        THEN IF Len(trimmed) > 0 THEN trimmed \o <<NL, NL>> \o formatted ELSE formatted
        ELSE formatted \o substringFrom(fileContent, sectionEnd)

replaceMarkedSection_noTrim(fileContent, newListContent) ==
    LET formatted    == formatContentsSection(newListContent)
        headingIdx   == indexOf(fileContent, CONTENTS_HEADING)
        contentStart == headingIdx + Len(CONTENTS_HEADING)
        sectionEnd   == findSectionEnd(fileContent, contentStart)
    IN  IF headingIdx = -1
        THEN IF Len(fileContent) > 0 THEN fileContent \o <<NL, NL>> \o formatted ELSE formatted
        ELSE substring(fileContent, 0, headingIdx) \o formatted
                 \o substringFrom(fileContent, sectionEnd)

replaceMarkedSection_alwaysAppend(fileContent, newListContent) ==
    LET formatted == formatContentsSection(newListContent)
        trimmed   == trimEnd(fileContent)
    IN  IF Len(trimmed) > 0 THEN trimmed \o <<NL, NL>> \o formatted ELSE formatted

replaceMarkedSection(fileContent, newListContent) ==
    LET formatted    == formatContentsSection(newListContent)
        headingIdx   == indexOf(fileContent, CONTENTS_HEADING)
        trimmed      == trimEnd(fileContent)
        contentStart == headingIdx + Len(CONTENTS_HEADING)
        sectionEnd   == findSectionEnd(fileContent, contentStart)
        before       == substring(fileContent, 0, headingIdx)
        after        == substringFrom(fileContent, sectionEnd)
    IN  IF headingIdx = -1
        THEN IF Len(trimmed) > 0 THEN trimmed \o <<NL, NL>> \o formatted ELSE formatted
        ELSE before \o formatted \o after

computeContentHash_length(c) == [j \in 1..Len(trim(c)) |-> "?"]

computeContentHash(c) == trim(c)

(***************************************************************************)
(* Paths and documents.  A path is the sequence of its "/"-separated        *)
(* segments (the root folder is <<>>); a segment is a token sequence; the   *)
(* name of a markdown document ends with the token ".md".  The vault's      *)
(* documents are a sequence of [path, content] records in the order         *)
(* vault.getMarkdownFiles() enumerates them.                                *)
(***************************************************************************)
Digits == {"0", "1", "2", "3", "4", "5", "6", "7", "8", "9"}

RECURSIVE SetToSeq(_)
SetToSeq(S) ==
    IF S = {} THEN <<>>
    ELSE LET x == CHOOSE y \in S : TRUE IN <<x>> \o SetToSeq(S \ {x})

Range(q) == {q[i] : i \in 1..Len(q)}

IsPrefixSeq(a, b) == Len(a) <= Len(b) /\ SubSeq(b, 1, Len(a)) = a

\* TFile.name, TFile.basename, TFolder.name
NameOf(path) == IF path = <<>> THEN <<>> ELSE path[Len(path)]

BasenameOf(path) == SubSeq(NameOf(path), 1, Len(NameOf(path)) - 1)

getParentPath(path) == SubSeq(path, 1, Len(path) - 1)

getMarkdownFiles(F) == [i \in 1..Len(F) |-> F[i].path]

\* the documents at the given paths, contents left out
Bare(paths) == [i \in 1..Len(paths) |-> [path |-> paths[i], content |-> <<>>]]

Exists(F, path) == \E i \in 1..Len(F) : F[i].path = path

ContentOf(F, path) == F[CHOOSE i \in 1..Len(F) : F[i].path = path].content

\* Array.prototype.find / filter on a sequence
FirstOf(q) == IF q = <<>> THEN Null ELSE q[1]

(***************************************************************************)
(* utils/indexGenerator.ts: pattern matcher.  A pattern is a token          *)
(* sequence over: "^" (start anchor), "\\d{2}" (two digits), "(" and ")"    *)
(* (group), "\\" (escape of the next token), any other token (literal).     *)
(***************************************************************************)
RegexMeta == {"^", "(", ")", "\\", "$", ".", "*", "+", "?", "|", "[", "]", "{", "}"}

\* new RegExp(pattern) throws a SyntaxError: unbalanced group
RECURSIVE ParenDepthOk(_, _, _)
ParenDepthOk(p, k, depth) ==
    IF k > Len(p) THEN depth = 0
    ELSE IF p[k] = "\\" THEN ParenDepthOk(p, k + 2, depth)
    ELSE IF p[k] = "(" THEN ParenDepthOk(p, k + 1, depth + 1)
    ELSE IF p[k] = ")" THEN depth > 0 /\ ParenDepthOk(p, k + 1, depth - 1)
    ELSE ParenDepthOk(p, k + 1, depth)

RegExpCompiles(p) == ParenDepthOk(p, 1, 0)

escapeRegExp_none(str) == str

RECURSIVE escapeRegExp(_)
escapeRegExp(str) ==
    IF str = <<>> THEN <<>>
    ELSE (IF Head(str) \in RegexMeta THEN <<"\\", Head(str)>> ELSE <<Head(str)>>)
             \o escapeRegExp(Tail(str))

\* end offset of the match of re[k..] against s at offset i, -1 if none
RECURSIVE MatchEnd(_, _, _, _)
MatchEnd(re, k, s, i) ==
    IF k > Len(re) THEN i
    ELSE IF re[k] = "^" THEN (IF i = 0 THEN MatchEnd(re, k + 1, s, i) ELSE -1)
    ELSE IF re[k] \in {"(", ")"} THEN MatchEnd(re, k + 1, s, i)
    ELSE IF re[k] = "\\d{2}"
         THEN (IF i + 2 <= Len(s) /\ s[i + 1] \in Digits /\ s[i + 2] \in Digits
               THEN MatchEnd(re, k + 1, s, i + 2) ELSE -1)
    ELSE IF re[k] = "\\"
         THEN (IF k + 1 <= Len(re) /\ i + 1 <= Len(s) /\ s[i + 1] = re[k + 1]
               THEN MatchEnd(re, k + 2, s, i + 1) ELSE -1)
    ELSE (IF i + 1 <= Len(s) /\ s[i + 1] = re[k] THEN MatchEnd(re, k + 1, s, i + 1) ELSE -1)

\* offset of the first match of the (unanchored) regex in s, -1 if none
RegExpSearch(re, s) ==
    LET hits == {i \in 0..Len(s) : MatchEnd(re, 1, s, i) # -1}
    IN  IF hits = {} THEN -1 ELSE MinOf(hits)

RegExpTest(re, s) == RegExpSearch(re, s) # -1

\* String.prototype.replace(regex, ""): the first match removed
RegExpStrip(re, s) ==
    LET i == RegExpSearch(re, s)
    IN  IF i = -1 THEN s ELSE SubSeq(s, 1, i) \o SubSeq(s, MatchEnd(re, 1, s, i) + 1, Len(s))

\* String.prototype.replace(token, by): the first occurrence of a placeholder replaced
ReplaceToken(s, token, by) ==
    LET i == indexOf(s, <<token>>)
    IN  IF i = -1 THEN s ELSE SubSeq(s, 1, i) \o by \o SubSeq(s, i + 2, Len(s))

createSafeRegex(pattern) ==
    IF pattern = <<>> THEN Null
    ELSE IF RegExpCompiles(pattern) THEN pattern
    ELSE escapeRegExp(pattern)

matchesIdentifier(basename, pattern) ==
    LET regex == createSafeRegex(pattern)
    IN  IF regex = Null THEN FALSE ELSE RegExpTest(regex, basename)

(***************************************************************************)
(* utils/indexGenerator.ts: folder scanner                                  *)
(***************************************************************************)
isInIgnoredFolder(filePath, ignoredFolders) ==
    \E k \in 1..Len(ignoredFolders) :
        \/ filePath = ignoredFolders[k]
        \/ (Len(filePath) > Len(ignoredFolders[k]) /\ IsPrefixSeq(ignoredFolders[k], filePath))

getIndexFiles(F, identifierPattern, ignoredFolders) ==
    LET keep(path) == /\ matchesIdentifier(BasenameOf(path), identifierPattern)
                      /\ ~isInIgnoredFolder(path, ignoredFolders)
    IN  SelectSeq(getMarkdownFiles(F), keep)

isIndexFile(path, identifierPattern) == matchesIdentifier(BasenameOf(path), identifierPattern)

getSiblingFiles_keepIndexes(F, indexFile, identifierPattern, ignoredFolders) ==
    LET parentPath == getParentPath(indexFile)
        keep(path) == /\ getParentPath(path) = parentPath
                      /\ path # indexFile
                      /\ ~isInIgnoredFolder(path, ignoredFolders)
    IN  SelectSeq(getMarkdownFiles(F), keep)

getSiblingFiles(F, indexFile, identifierPattern, ignoredFolders) ==
    LET parentPath == getParentPath(indexFile)
        keep(path) == /\ getParentPath(path) = parentPath
                      /\ path # indexFile
                      /\ ~isIndexFile(path, identifierPattern)
                      /\ ~isInIgnoredFolder(path, ignoredFolders)
    IN  SelectSeq(getMarkdownFiles(F), keep)

\* folder.children restricted to folders; their order is the host's and has no
\* effect on the rendered list, which is sorted by name
getImmediateSubfolders_allDepths(D, folderPath) ==
    IF folderPath \notin D THEN <<>>
    ELSE SetToSeq({d \in D : Len(d) > Len(folderPath) /\ IsPrefixSeq(folderPath, d)})

getImmediateSubfolders(D, folderPath) ==
    IF folderPath \notin D THEN <<>>
    ELSE SetToSeq({d \in D : Len(d) = Len(folderPath) + 1 /\ IsPrefixSeq(folderPath, d)})

RECURSIVE NestedOf(_, _, _, _)
NestedOf(F, subfolders, identifierPattern, ignoredFolders) ==
    IF subfolders = <<>> THEN <<>>
    ELSE LET subfolder == Head(subfolders)
             inSub(path) == getParentPath(path) = subfolder
                            /\ isIndexFile(path, identifierPattern)
             indexInSubfolder == FirstOf(SelectSeq(getMarkdownFiles(F), inSub))
             rest == NestedOf(F, Tail(subfolders), identifierPattern, ignoredFolders)
         IN  IF isInIgnoredFolder(subfolder, ignoredFolders) THEN rest
             ELSE IF indexInSubfolder # Null THEN <<indexInSubfolder>> \o rest
             ELSE rest

getNestedIndexFiles(F, D, indexFile, identifierPattern, ignoredFolders) ==
    NestedOf(F, getImmediateSubfolders(D, getParentPath(indexFile)),
             identifierPattern, ignoredFolders)

(***************************************************************************)
(* utils/indexGenerator.ts: list renderer                                   *)
(***************************************************************************)
\* collation rank of a token: punctuation before digits before letters
TokenRank(tok) ==
    CASE tok = " "        -> 1
      [] tok = "-"        -> 2
      [] tok = ".md"      -> 3
      [] tok \in Digits   -> 10 + (CHOOSE n \in 0..9 : tok = <<"0", "1", "2", "3", "4", "5", "6", "7", "8", "9">>[n + 1])
      [] tok = "Alpha"    -> 21
      [] tok = "Archive"  -> 22
      [] tok = "Index"    -> 23
      [] tok = "Notes"    -> 24
      [] tok = "Projects" -> 25
      [] tok = "Sub"      -> 26
      [] OTHER            -> 30

\* a.localeCompare(b): negative, zero or positive
RECURSIVE localeCompare(_, _)
localeCompare(a, b) ==
    IF a = <<>> /\ b = <<>> THEN 0
    ELSE IF a = <<>> THEN -1
    ELSE IF b = <<>> THEN 1
    ELSE IF TokenRank(Head(a)) < TokenRank(Head(b)) THEN -1
    ELSE IF TokenRank(Head(a)) > TokenRank(Head(b)) THEN 1
    ELSE localeCompare(Tail(a), Tail(b))

formatIndexDisplayName(file, displayStripPattern, displayFormat) ==
    LET regex    == createSafeRegex(displayStripPattern)
        stripped == RegExpStrip(regex, BasenameOf(file))
        name     == IF displayStripPattern # <<>> /\ regex # Null
                    THEN (IF Len(stripped) = 0 THEN BasenameOf(file) ELSE stripped)
                    ELSE BasenameOf(file)
    IN  ReplaceToken(displayFormat, "{name}", name)

\* the comparator of sortFiles
SortCompare(a, b, sortOrder) ==
    LET comparison == localeCompare(NameOf(a), NameOf(b))
    IN  IF sortOrder = <<"asc">> THEN comparison ELSE 0 - comparison

\* [...files].sort(comparator): stable
RECURSIVE sortFiles(_, _)
sortFiles(list, sortOrder) ==
    IF list = <<>> THEN <<>>
    ELSE LET firsts == {i \in 1..Len(list) :
                           \A j \in 1..Len(list) : SortCompare(list[i], list[j], sortOrder) <= 0}
             i == MinOf(firsts)
         IN  <<list[i]>> \o sortFiles(SubSeq(list, 1, i - 1) \o SubSeq(list, i + 1, Len(list)),
                                       sortOrder)

Ordinal(n) == <<"1", "2", "3", "4", "5", "6", "7", "8", "9">>[n]

RECURSIVE JoinLines(_)
JoinLines(ls) ==
    IF ls = <<>> THEN <<>>
    ELSE IF Len(ls) = 1 THEN ls[1]
    ELSE ls[1] \o <<NL>> \o JoinLines(Tail(ls))

NO_FILES_FOUND == <<"*No files found*">>

generateListContent(siblings, nestedIndexes, sortOrder, displayStripPattern, indexDisplayFormat) ==
    LET sortedNested   == sortFiles(nestedIndexes, sortOrder)
        sortedSiblings == sortFiles(siblings, sortOrder)
        allItems       == sortedNested \o sortedSiblings
        line(index)    ==
            IF index <= Len(sortedNested)
            THEN <<Ordinal(index), ".", " ", "[[">> \o BasenameOf(allItems[index]) \o <<"|">>
                     \o formatIndexDisplayName(allItems[index], displayStripPattern, indexDisplayFormat)
                     \o <<"]]">>
            ELSE <<Ordinal(index), ".", " ", "[[">> \o BasenameOf(allItems[index]) \o <<"]]">>
    IN  IF Len(allItems) = 0 THEN NO_FILES_FOUND
        ELSE JoinLines([index \in 1..Len(allItems) |-> line(index)])

(***************************************************************************)
(* main.ts: settings, front matter, one reconciliation pass                 *)
(***************************************************************************)
DEFAULT_IDENTIFIER == <<"^", "\\d{2}", " ", "-", " ">>

DEFAULT_DISPLAY_FORMAT == <<"DIR", " ", "{name}">>

DEFAULT_FILE_PATTERN == <<"0", "0", " ", "-", " ", "{folderName}">>

\* DEFAULT_SETTINGS merged with the `??` fallbacks of main.ts
DefaultSettings ==
    [ indexIdentifier      |-> DEFAULT_IDENTIFIER,
      indexDisplayFormat   |-> DEFAULT_DISPLAY_FORMAT,
      displayStripPattern  |-> DEFAULT_IDENTIFIER,
      sortEnabled          |-> TRUE,
      sortOrder            |-> <<"asc">>,
      ignoredFolders       |-> <<>>,
      frontmatterAttributes |-> <<>>,
      indexFilePattern     |-> DEFAULT_FILE_PATTERN,
      autoUpdateIndexes    |-> TRUE ]

\* String.prototype.split(sep) for a one-token separator
RECURSIVE SplitBy(_, _)
SplitBy(str, sep) ==
    LET i == indexOf(str, <<sep>>)
    IN  IF i = -1 THEN <<str>>
        ELSE <<SubSeq(str, 1, i)>> \o SplitBy(SubSeq(str, i + 2, Len(str)), sep)

\* yamlObj[k] = v on an insertion-ordered object
PutKey(obj, k, v) ==
    IF \E i \in 1..Len(obj) : obj[i].key = k
    THEN [i \in 1..Len(obj) |-> IF obj[i].key = k THEN [key |-> k, value |-> v] ELSE obj[i]]
    ELSE Append(obj, [key |-> k, value |-> v])

RECURSIVE ParseYamlLines(_, _)
ParseYamlLines(lines, obj) ==
    IF lines = <<>> THEN obj
    ELSE LET line == Head(lines)
             c    == indexOf(line, <<":">>)
             k    == SubSeq(line, 1, c)
             v    == SubSeq(line, c + 2, Len(line))
         IN  IF c # -1 /\ k # <<>>
             THEN ParseYamlLines(Tail(lines), PutKey(obj, trim(k), trim(v)))
             ELSE ParseYamlLines(Tail(lines), obj)

RECURSIVE Overlay(_, _)
Overlay(obj, attributes) ==
    IF attributes = <<>> THEN obj
    ELSE Overlay(PutKey(obj, Head(attributes).key, Head(attributes).value), Tail(attributes))

injectFrontmatter(text, attributes) ==
    LET opens   == Len(text) >= 2 /\ text[1] = "---" /\ text[2] = NL
        \* 0-based offsets j >= 2 of a "\n" that is followed by "---"
        closers == {j \in 2..(Len(text) - 2) : text[j + 1] = NL /\ text[j + 2] = "---"}
        j       == MinOf(closers)
        matched == opens /\ closers # {}
        yamlBlock == SubSeq(text, 3, j)
        matchLen  == j + 2 + (IF j + 3 <= Len(text) /\ text[j + 3] = NL THEN 1 ELSE 0)
        parsed  == matched /\ yamlBlock # <<>>
        rest    == IF parsed THEN SubSeq(text, matchLen + 1, Len(text)) ELSE text
        yamlObj == Overlay(IF parsed THEN ParseYamlLines(SplitBy(yamlBlock, NL), <<>>) ELSE <<>>,
                           attributes)
        newYaml == JoinLines([i \in 1..Len(yamlObj) |->
                                 yamlObj[i].key \o <<":", " ">> \o yamlObj[i].value])
    IN  IF Len(attributes) = 0 THEN text
        ELSE <<"---", NL>> \o newYaml \o <<NL, "---", NL>> \o rest

\* a JavaScript boolean that reaches a string-typed parameter: equal to no string
JsBoolean(b) == IF b THEN <<"<true>">> ELSE <<"<false>">>

\* updateIndexFile, lines 51-72: the call hands six arguments
\* (siblings, nestedIndexes, sortEnabled, sortOrder, displayStripPattern, displayFormat)
\* to the five parameters of generateListContent; they are bound by position and
\* the sixth is dropped
newListContentOf(F, D, S, indexFile) ==
    LET siblings      == getSiblingFiles(F, indexFile, S.indexIdentifier, S.ignoredFolders)
        nestedIndexes == getNestedIndexFiles(F, D, indexFile, S.indexIdentifier, S.ignoredFolders)
    IN  generateListContent(siblings, nestedIndexes,
                            JsBoolean(S.sortEnabled), S.sortOrder, S.displayStripPattern)

\* updateIndexFile, lines 77-90, on the text that vault.read returned
PassOutcome_wholeText(S, stored, newListContent) ==
    LET newHash         == computeContentHash(newListContent)
        currentContent  == injectFrontmatter(stored, S.frontmatterAttributes)
        existingSection == currentContent
        existingHash    == IF existingSection # Null /\ existingSection # <<>>
                           THEN computeContentHash(existingSection) ELSE Null
    IN  [ write          |-> existingHash # newHash,
          updatedContent |-> replaceMarkedSection(currentContent, newListContent) ]

PassOutcome(S, stored, newListContent) ==
    LET newHash         == computeContentHash(newListContent)
        currentContent  == injectFrontmatter(stored, S.frontmatterAttributes)
        existingSection == extractMarkedSection(currentContent)
        existingHash    == IF existingSection # Null /\ existingSection # <<>>
                           THEN computeContentHash(existingSection) ELSE Null
    IN  [ write          |-> existingHash # newHash,
          updatedContent |-> replaceMarkedSection(currentContent, newListContent) ]

(***************************************************************************)
(* main.ts: handlers and commands as tasks.  A task is one invocation       *)
(* suspended at an await; pc names the await:                               *)
(*   "delay"    the 50 ms timer of handleFileRename                         *)
(*   "creating" vault.create      "renaming" vault.rename                   *)
(*   "read"     vault.read        "write"    vault.modify                   *)
(*   "done"     returned          "threw"    ended by an uncaught exception *)
(* todo lists what the invocation still has to do after the current await:  *)
(* [kind |-> "folder"] is an updateIndexInFolder(path) call,                *)
(* [kind |-> "file"] an updateIndexFile(path) call of a command loop,       *)
(* [kind |-> "create"] an iteration of the bulk command's loop on a folder.  *)
(***************************************************************************)
NoScan == [op |-> "none", arg |-> <<>>, out |-> <<>>, matched |-> FALSE]

NoNotice == [kind |-> "none", count |-> 0]

NewTask(op) ==
    [ op |-> op, pc |-> "done", todo |-> <<>>,
      idx |-> <<>>, cand |-> <<>>, upd |-> <<>>, pre |-> <<>>, tree |-> <<>>,
      target |-> <<>>, source |-> <<>>,
      subject |-> <<>>, isFolder |-> FALSE, oldPath |-> <<>>, newParent |-> <<>>,
      count |-> 0,
      \* bookkeeping: the path the event carried, and the rejections swallowed so far
      evPath |-> <<>>, swallowed |-> 0 ]

\* `folder.name || "Index"`
FolderNameOrIndex(path) == IF NameOf(path) = <<>> THEN <<"Index">> ELSE NameOf(path)

AutoIndexName_templateOnly(S, folderPath) ==
    ReplaceToken(S.indexFilePattern, "{folderName}", FolderNameOrIndex(folderPath)) \o <<".md">>

\* the name an auto-created index document gets; new RegExp(identifierPattern) is
\* not guarded here
AutoIndexName(S, folderPath) ==
    LET folderName == FolderNameOrIndex(folderPath)
    IN  IF RegExpTest(S.indexIdentifier, folderName)
        THEN folderName \o <<".md">>
        ELSE ReplaceToken(S.indexFilePattern, "{folderName}", folderName) \o <<".md">>

TreeOf(F, D) == <<getMarkdownFiles(F), D>>

\* the part of updateIndexFile before `await vault.read`
BeginPass(t, indexFile, F, D, S) ==
    [t EXCEPT !.pc = "read", !.idx = indexFile,
              !.cand = newListContentOf(F, D, S, indexFile), !.tree = TreeOf(F, D)]

\* runs the invocation until its next await or its end
RECURSIVE Advance(_, _, _, _)
Advance(t, F, D, S) ==
    IF t.todo = <<>> THEN [t EXCEPT !.pc = "done"]
    ELSE LET item == Head(t.todo)
             rest == [t EXCEPT !.todo = Tail(t.todo)]
             \* updateIndexInFolder
             inFolder(f)   == getParentPath(f) = item.path
             indexInFolder == FirstOf(SelectSeq(getIndexFiles(F, S.indexIdentifier, S.ignoredFolders), inFolder))
             indexFile == IF item.kind = "folder" THEN indexInFolder ELSE item.path
             \* generateIndexFilesForAllFolders, one folder of its loop; t.tree is the
             \* vault as it was when the command took existingIndexes
             existingIndexes == getIndexFiles(Bare(t.tree[1]), S.indexIdentifier, <<>>)
             folderHasIndex  == \E k \in 1..Len(existingIndexes) :
                                    getParentPath(existingIndexes[k]) = item.path
             skips == \/ (item.path # <<>> /\ isInIgnoredFolder(item.path, S.ignoredFolders))
                      \/ folderHasIndex
         IN  IF item.kind = "create" /\ ~skips
             THEN (IF ~RegExpCompiles(S.indexIdentifier) THEN [rest EXCEPT !.pc = "threw"]
                   ELSE [rest EXCEPT !.pc = "creating",
                                     !.target = item.path \o <<AutoIndexName(S, item.path)>>])
             ELSE IF item.kind # "create" /\ indexFile # Null
             THEN BeginPass(rest, indexFile, F, D, S)
             ELSE Advance(rest, F, D, S)

FolderItem(path) == [kind |-> "folder", path |-> path]

FileItem(path) == [kind |-> "file", path |-> path]

\* createIndexFileForFolder up to its `await vault.create`
createIndexFileForFolder(t, folder, F, D, S) ==
    LET existingIndexes == getIndexFiles(F, S.indexIdentifier, <<>>)
        folderHasIndex  == \E i \in 1..Len(existingIndexes) :
                               getParentPath(existingIndexes[i]) = folder
        returns         == isInIgnoredFolder(folder, S.ignoredFolders) \/ folderHasIndex
    IN  IF returns THEN Advance(t, F, D, S)
        ELSE IF ~RegExpCompiles(S.indexIdentifier) THEN [t EXCEPT !.pc = "threw"]
        ELSE [t EXCEPT !.pc = "creating", !.target = folder \o <<AutoIndexName(S, folder)>>]

handleFileCreate_noToggle(file, isFolder, F, D, S) ==
    LET parentPath == getParentPath(file)
        t == [NewTask("create") EXCEPT !.subject = file, !.evPath = file, !.isFolder = isFolder,
                                       !.todo = <<FolderItem(parentPath)>>]
        returns == \/ (parentPath # <<>> /\ isInIgnoredFolder(parentPath, S.ignoredFolders))
                   \/ (isFolder /\ isInIgnoredFolder(file, S.ignoredFolders))
    IN  IF returns THEN <<>>
        ELSE IF isFolder THEN <<createIndexFileForFolder(t, file, F, D, S)>>
        ELSE <<Advance(t, F, D, S)>>

\* handleFileCreate up to its first await
handleFileCreate(file, isFolder, F, D, S) ==
    LET parentPath == getParentPath(file)
        t == [NewTask("create") EXCEPT !.subject = file, !.evPath = file, !.isFolder = isFolder,
                                       !.todo = <<FolderItem(parentPath)>>]
        returns == \/ ~S.autoUpdateIndexes
                   \/ (parentPath # <<>> /\ isInIgnoredFolder(parentPath, S.ignoredFolders))
                   \/ (isFolder /\ isInIgnoredFolder(file, S.ignoredFolders))
    IN  IF returns THEN <<>>
        ELSE IF isFolder THEN <<createIndexFileForFolder(t, file, F, D, S)>>
        ELSE <<Advance(t, F, D, S)>>

handleFileDelete_none(file, isFolder, F, D, S) == <<>>

\* handleFileDelete up to its first await
handleFileDelete(file, isFolder, F, D, S) ==
    LET parentPath == getParentPath(file)
        t == [NewTask("delete") EXCEPT !.subject = file, !.evPath = file, !.isFolder = isFolder,
                                       !.todo = <<FolderItem(parentPath)>>]
    IN  IF ~S.autoUpdateIndexes THEN <<>>
        ELSE IF parentPath # <<>> /\ isInIgnoredFolder(parentPath, S.ignoredFolders) THEN <<>>
        ELSE <<Advance(t, F, D, S)>>

handleFileRename_sameParent(file, isFolder, oldPath, S) ==
    IF ~S.autoUpdateIndexes THEN <<>>
    ELSE << [NewTask("rename") EXCEPT !.pc = "delay", !.subject = file, !.evPath = file,
                                      !.isFolder = isFolder,
                                      !.oldPath = oldPath, !.newParent = getParentPath(oldPath)] >>

\* handleFileRename up to `await new Promise(resolve => setTimeout(resolve, 50))`
handleFileRename(file, isFolder, oldPath, S) ==
    IF ~S.autoUpdateIndexes THEN <<>>
    ELSE << [NewTask("rename") EXCEPT !.pc = "delay", !.subject = file, !.evPath = file,
                                      !.isFolder = isFolder,
                                      !.oldPath = oldPath, !.newParent = getParentPath(file)] >>

renameIndexFileInFolder_always(t, folder, oldFolderPath, F, D, S) ==
    LET indexFiles      == getIndexFiles(F, S.indexIdentifier, <<>>)
        inFolder(f)     == getParentPath(f) = folder
        indexInFolder   == FirstOf(SelectSeq(indexFiles, inFolder))
        newFolderName   == FolderNameOrIndex(folder)
        expectedNewName == ReplaceToken(S.indexFilePattern, "{folderName}", newFolderName) \o <<".md">>
        newFilePath     == folder \o <<expectedNewName>>
    IN  IF indexInFolder = Null \/ NameOf(indexInFolder) = expectedNewName
        THEN Advance(t, F, D, S)
        ELSE [t EXCEPT !.pc = "renaming", !.source = indexInFolder, !.target = newFilePath]

\* renameIndexFileInFolder up to its `await vault.rename`
renameIndexFileInFolder(t, folder, oldFolderPath, F, D, S) ==
    LET indexFiles      == getIndexFiles(F, S.indexIdentifier, <<>>)
        inFolder(f)     == getParentPath(f) = folder
        indexInFolder   == FirstOf(SelectSeq(indexFiles, inFolder))
        oldFolderName   == FolderNameOrIndex(oldFolderPath)
        newFolderName   == FolderNameOrIndex(folder)
        expectedOldName == ReplaceToken(S.indexFilePattern, "{folderName}", oldFolderName) \o <<".md">>
        expectedNewName == ReplaceToken(S.indexFilePattern, "{folderName}", newFolderName) \o <<".md">>
        newFilePath     == folder \o <<expectedNewName>>
        returns         == \/ indexInFolder = Null
                           \/ NameOf(indexInFolder) # expectedOldName
                           \/ expectedOldName = expectedNewName
                           \/ Exists(F, newFilePath) \/ newFilePath \in D
    IN  IF returns THEN Advance(t, F, D, S)
        ELSE [t EXCEPT !.pc = "renaming", !.source = indexInFolder, !.target = newFilePath]

\* handleFileRename after the timer
afterDelay(t, F, D, S) ==
    LET oldParentPath == getParentPath(t.oldPath)
        newParentPath == t.newParent
        updOld == IF oldParentPath = <<>> \/ ~isInIgnoredFolder(oldParentPath, S.ignoredFolders)
                  THEN <<FolderItem(oldParentPath)>> ELSE <<>>
        updNew == IF newParentPath # oldParentPath
                     /\ (newParentPath = <<>> \/ ~isInIgnoredFolder(newParentPath, S.ignoredFolders))
                  THEN <<FolderItem(newParentPath)>> ELSE <<>>
        u == [t EXCEPT !.todo = updOld \o updNew]
    IN  IF t.isFolder THEN renameIndexFileInFolder(u, t.subject, t.oldPath, F, D, S)
        ELSE Advance(u, F, D, S)

(***************************************************************************)
(* The vault (host): renames keep the TFile / TFolder objects, so every     *)
(* reference a suspended invocation holds follows the renamed path.         *)
(***************************************************************************)
Rewrite(path, from, to) ==
    IF IsPrefixSeq(from, path) THEN to \o SubSeq(path, Len(from) + 1, Len(path)) ELSE path

RewriteFiles(F, from, to) ==
    [i \in 1..Len(F) |-> [F[i] EXCEPT !.path = Rewrite(F[i].path, from, to)]]

RewriteTask(t, from, to) ==
    [t EXCEPT !.idx = Rewrite(t.idx, from, to),
              !.source = Rewrite(t.source, from, to),
              !.subject = Rewrite(t.subject, from, to),
              !.todo = [i \in 1..Len(t.todo) |->
                           IF t.todo[i].kind \in {"file", "create"}
                           THEN [t.todo[i] EXCEPT !.path = Rewrite(t.todo[i].path, from, to)]
                           ELSE t.todo[i]]]

RewriteTasks(T, from, to) == [i \in 1..Len(T) |-> RewriteTask(T[i], from, to)]

RemoveFile(F, path) == SelectSeq(F, LAMBDA r : r.path # path)

SetContent(F, path, text) ==
    [i \in 1..Len(F) |-> IF F[i].path = path THEN [F[i] EXCEPT !.content = text] ELSE F[i]]

Running(T) == SelectSeq(T, LAMBDA t : t.pc \notin {"done", "threw"})

Threw(T) == {T[i].op : i \in {j \in 1..Len(T) : T[j].pc = "threw"}}

NoticeOf_countOnly(t) ==
    CASE t.op \in {"vault", "folder"} -> [kind |-> "updated", count |-> t.count]
      [] OTHER -> NoNotice

\* the Notice an invocation shows when it returns
NoticeOf(t) ==
    CASE t.op = "vault"  -> IF t.count > 0 THEN [kind |-> "updated", count |-> t.count]
                            ELSE [kind |-> "upToDate", count |-> 0]
      [] t.op = "folder" -> IF t.count > 0 THEN [kind |-> "updated", count |-> t.count]
                            ELSE [kind |-> "upToDate", count |-> 0]
      [] t.op = "bulk"   -> IF t.count > 0 THEN [kind |-> "created", count |-> t.count]
                            ELSE [kind |-> "noneCreated", count |-> 0]
      [] OTHER -> NoNotice

\* replaces task i by its successor u, adds the invocations spawned by vault
\* events, drops what has ended
Settle(T, i, u, spawned) ==
    LET all == [T EXCEPT ![i] = u] \o spawned
    IN  /\ tasks' = Running(all)
        /\ threw' = threw \cup Threw(all)
        /\ notice' = IF u.pc = "done" /\ NoticeOf(u) # NoNotice THEN NoticeOf(u) ELSE notice

Spawn(spawned) ==
    /\ tasks' = tasks \o Running(spawned)
    /\ threw' = threw \cup Threw(spawned)

Remember(entry) ==
    hist' = IF window = 0 THEN hist
            ELSE IF Len(hist) < window THEN Append(hist, entry)
            ELSE Append(Tail(hist), entry)

(***************************************************************************)
(* User actions on the vault; each fires the vault event, whose callback    *)
(* runs the handler synchronously up to its first await.                    *)
(***************************************************************************)
UserCreateFile(p) ==
    /\ nEvents < MaxEvents
    /\ ~Exists(files, p) /\ p \notin folders /\ getParentPath(p) \in folders
    /\ files' = Append(files, [path |-> p, content |-> <<>>])
    /\ Spawn(handleFileCreate(p, FALSE, files', folders, settings))
    /\ nEvents' = nEvents + 1
    /\ UNCHANGED <<scan, patchLog, content, folders, settings, hist, notice, origin, window>>

UserCreateFolder(d) ==
    /\ nEvents < MaxEvents
    /\ d \notin folders /\ ~Exists(files, d) /\ getParentPath(d) \in folders
    /\ folders' = folders \cup {d}
    /\ Spawn(handleFileCreate(d, TRUE, files, folders', settings))
    /\ nEvents' = nEvents + 1
    /\ UNCHANGED <<scan, patchLog, content, files, settings, hist, notice, origin, window>>

UserDeleteFile(p) ==
    /\ nEvents < MaxEvents
    /\ Exists(files, p)
    /\ files' = RemoveFile(files, p)
    /\ Spawn(handleFileDelete(p, FALSE, files', folders, settings))
    /\ nEvents' = nEvents + 1
    /\ UNCHANGED <<scan, patchLog, content, folders, settings, hist, notice, origin, window>>

\* an empty folder is deleted
UserDeleteFolder(d) ==
    /\ nEvents < MaxEvents
    /\ d \in folders /\ d # <<>>
    /\ ~\E e \in folders : e # d /\ IsPrefixSeq(d, e)
    /\ ~\E i \in 1..Len(files) : IsPrefixSeq(d, files[i].path)
    /\ folders' = folders \ {d}
    /\ Spawn(handleFileDelete(d, TRUE, files, folders \ {d}, settings))
    /\ nEvents' = nEvents + 1
    /\ UNCHANGED <<scan, patchLog, content, files, settings, hist, notice, origin, window>>

UserRenameFile(p, q) ==
    /\ nEvents < MaxEvents
    /\ Exists(files, p) /\ p # q
    /\ ~Exists(files, q) /\ q \notin folders /\ getParentPath(q) \in folders
    /\ files' = RewriteFiles(files, p, q)
    /\ tasks' = RewriteTasks(tasks, p, q) \o handleFileRename(q, FALSE, p, settings)
    /\ nEvents' = nEvents + 1
    /\ UNCHANGED <<scan, patchLog, content, folders, settings, hist, notice, threw, origin, window>>

\* a folder is renamed or moved with everything in it; the event is the folder's
UserRenameFolder(d, e) ==
    /\ nEvents < MaxEvents
    /\ d \in folders /\ d # <<>> /\ d # e /\ ~IsPrefixSeq(d, e)
    /\ e \notin folders /\ ~Exists(files, e) /\ getParentPath(e) \in folders
    /\ folders' = {Rewrite(x, d, e) : x \in folders}
    /\ files' = RewriteFiles(files, d, e)
    /\ tasks' = RewriteTasks(tasks, d, e) \o handleFileRename(e, TRUE, d, settings)
    /\ nEvents' = nEvents + 1
    /\ UNCHANGED <<scan, patchLog, content, settings, hist, notice, threw, origin, window>>

\* another writer (the editor) puts a line of its own at the top of a document;
\* onload registers no handler for "modify"
UserEdit(p) ==
    /\ nEvents < MaxEvents
    /\ Exists(files, p)
    /\ files' = SetContent(files, p, <<"note", NL>> \o ContentOf(files, p))
    /\ nEvents' = nEvents + 1
    /\ UNCHANGED <<scan, patchLog, content, folders, settings, tasks, hist, notice, threw,
                   origin, window>>

\* command "Generate indexes for current folder", activeFile being the active document
CmdFolder(activeFile) ==
    /\ nEvents < MaxEvents
    /\ Exists(files, activeFile)
    /\ LET currentFolder == getParentPath(activeFile)
           inFolder(f)   == getParentPath(f) = currentFolder
           indexInFolder == FirstOf(SelectSeq(getIndexFiles(files, settings.indexIdentifier,
                                                           settings.ignoredFolders), inFolder))
       IN  IF indexInFolder = Null
           THEN /\ notice' = [kind |-> "noIndexInFolder", count |-> 0]
                /\ UNCHANGED tasks
           ELSE /\ tasks' = Append(tasks, BeginPass(NewTask("folder"), indexInFolder,
                                                    files, folders, settings))
                /\ UNCHANGED notice
    /\ nEvents' = nEvents + 1
    /\ UNCHANGED <<scan, patchLog, content, files, folders, settings, hist, threw, origin, window>>

(***************************************************************************)
(* Resumption of a suspended invocation                                     *)
(***************************************************************************)
\* the 50 ms timer of handleFileRename fires
TimerFires(i) ==
    /\ i \in 1..Len(tasks) /\ tasks[i].pc = "delay"
    /\ Settle(tasks, i, afterDelay(tasks[i], files, folders, settings), <<>>)
    /\ UNCHANGED <<scan, patchLog, content, files, folders, settings, hist, nEvents, origin, window>>

CreateCompletes_rethrows(i) ==
    /\ i \in 1..Len(tasks) /\ tasks[i].pc = "creating"
    /\ LET t  == tasks[i]
           ok == ~Exists(files, t.target) /\ t.target \notin folders
                 /\ getParentPath(t.target) \in folders
           F2 == IF ok THEN Append(files, [path |-> t.target, content |-> <<>>]) ELSE files
           spawned == IF ok THEN handleFileCreate(t.target, FALSE, F2, folders, settings) ELSE <<>>
           u  == [t EXCEPT !.count = t.count + 1]
       IN  /\ files' = F2
           /\ Settle(tasks, i, IF ok THEN Advance(u, F2, folders, settings)
                                ELSE [t EXCEPT !.pc = "threw"], spawned)
    /\ UNCHANGED <<scan, patchLog, content, folders, settings, hist, nEvents, origin, window>>

CreateCompletes_retries(i) ==
    /\ i \in 1..Len(tasks) /\ tasks[i].pc = "creating"
    /\ LET t  == tasks[i]
           ok == ~Exists(files, t.target) /\ t.target \notin folders
                 /\ getParentPath(t.target) \in folders
           F2 == IF ok THEN Append(files, [path |-> t.target, content |-> <<>>]) ELSE files
           spawned == IF ok THEN handleFileCreate(t.target, FALSE, F2, folders, settings) ELSE <<>>
           u  == [t EXCEPT !.count = IF ok THEN t.count + 1 ELSE t.count,
                           !.swallowed = IF ok THEN t.swallowed ELSE t.swallowed + 1]
       IN  /\ files' = F2
           /\ Settle(tasks, i, IF ok THEN Advance(u, F2, folders, settings) ELSE u, spawned)
    /\ UNCHANGED <<scan, patchLog, content, folders, settings, hist, nEvents, origin, window>>

\* vault.create(filePath, "") completes: the document exists and the create event
\* is fired, or the call is rejected and the rejection is swallowed
CreateCompletes(i) ==
    /\ i \in 1..Len(tasks) /\ tasks[i].pc = "creating"
    /\ LET t  == tasks[i]
           ok == ~Exists(files, t.target) /\ t.target \notin folders
                 /\ getParentPath(t.target) \in folders
           F2 == IF ok THEN Append(files, [path |-> t.target, content |-> <<>>]) ELSE files
           spawned == IF ok THEN handleFileCreate(t.target, FALSE, F2, folders, settings) ELSE <<>>
           u  == [t EXCEPT !.count = IF ok THEN t.count + 1 ELSE t.count,
                           !.swallowed = IF ok THEN t.swallowed ELSE t.swallowed + 1]
       IN  /\ files' = F2
           /\ Settle(tasks, i, Advance(u, F2, folders, settings), spawned)
    /\ UNCHANGED <<scan, patchLog, content, folders, settings, hist, nEvents, origin, window>>

\* vault.rename(indexInFolder, newFilePath) completes
RenameCompletes(i) ==
    /\ i \in 1..Len(tasks) /\ tasks[i].pc = "renaming"
    /\ LET t  == tasks[i]
           ok == Exists(files, t.source) /\ ~Exists(files, t.target) /\ t.target \notin folders
                 /\ getParentPath(t.target) \in folders
           F2 == IF ok THEN RewriteFiles(files, t.source, t.target) ELSE files
           T2 == IF ok THEN RewriteTasks(tasks, t.source, t.target) ELSE tasks
           spawned == IF ok THEN handleFileRename(t.target, FALSE, t.source, settings) ELSE <<>>
           u  == [T2[i] EXCEPT !.swallowed = IF ok THEN t.swallowed ELSE t.swallowed + 1]
       IN  /\ files' = F2
           /\ Settle(T2, i, Advance(u, F2, folders, settings), spawned)
    /\ UNCHANGED <<scan, patchLog, content, folders, settings, hist, nEvents, origin, window>>

\* vault.read(indexFile) resolves; updateIndexFile runs to `await vault.modify`
\* or returns false
ReadCompletes(i) ==
    /\ i \in 1..Len(tasks) /\ tasks[i].pc = "read"
    /\ LET t == tasks[i]
           stored  == ContentOf(files, t.idx)
           outcome == PassOutcome(settings, stored, t.cand)
       IN  IF ~Exists(files, t.idx)
           THEN /\ Settle(tasks, i, [t EXCEPT !.pc = "threw"], <<>>)
                /\ UNCHANGED hist
           ELSE IF outcome.write
           THEN /\ Settle(tasks, i, [t EXCEPT !.pc = "write", !.pre = stored,
                                              !.upd = outcome.updatedContent], <<>>)
                /\ UNCHANGED hist
           ELSE /\ Settle(tasks, i, Advance(t, files, folders, settings), <<>>)
                /\ Remember([idx |-> t.idx, tree |-> t.tree, cand |-> t.cand, pre |-> stored,
                             post |-> ContentOf(files, t.idx), wrote |-> FALSE, ret |-> FALSE])
    /\ UNCHANGED <<scan, patchLog, content, files, folders, settings, nEvents, origin, window>>

\* vault.modify(indexFile, updatedContent) completes; updateIndexFile returns true
WriteCompletes(i) ==
    /\ i \in 1..Len(tasks) /\ tasks[i].pc = "write"
    /\ LET t  == tasks[i]
           F2 == SetContent(files, t.idx, t.upd)
           u  == [t EXCEPT !.count = t.count + 1]
       IN  IF ~Exists(files, t.idx)
           THEN /\ Settle(tasks, i, [t EXCEPT !.pc = "threw"], <<>>)
                /\ UNCHANGED <<files, hist>>
           ELSE /\ files' = F2
                /\ Settle(tasks, i, Advance(u, F2, folders, settings), <<>>)
                /\ Remember([idx |-> t.idx, tree |-> t.tree, cand |-> t.cand, pre |-> t.pre,
                             post |-> ContentOf(F2, t.idx), wrote |-> TRUE, ret |-> TRUE])
    /\ UNCHANGED <<scan, patchLog, content, folders, settings, nEvents, origin, window>>

\* command "Generate indexes for entire vault"
CmdVault ==
    /\ nEvents < MaxEvents
    /\ LET indexFiles == getIndexFiles(files, settings.indexIdentifier, settings.ignoredFolders)
           t == [NewTask("vault") EXCEPT
                    !.todo = [k \in 1..(Len(indexFiles) - 1) |-> FileItem(indexFiles[k + 1])]]
       IN  IF Len(indexFiles) = 0
           THEN /\ notice' = [kind |-> "noIndexFiles", count |-> 0]
                /\ UNCHANGED tasks
           ELSE /\ tasks' = Append(tasks, BeginPass(t, indexFiles[1], files, folders, settings))
                /\ UNCHANGED notice
    /\ nEvents' = nEvents + 1
    /\ UNCHANGED <<scan, patchLog, content, files, folders, settings, hist, threw, origin, window>>

\* getAllFolders: the root, then each folder before the folders below it
RECURSIVE collectFolders(_, _)
collectFolders(D, pending) ==
    IF pending = <<>> THEN <<>>
    ELSE <<Head(pending)>>
             \o collectFolders(D, getImmediateSubfolders(D, Head(pending)) \o Tail(pending))

\* command "Generate index files for all folders", up to its first vault.create
CmdBulk ==
    /\ nEvents < MaxEvents
    /\ LET allFolders == collectFolders(folders, << <<>> >>)
           t == [NewTask("bulk") EXCEPT
                    !.tree = TreeOf(files, folders),
                    !.todo = [k \in 1..Len(allFolders) |->
                                 [kind |-> "create", path |-> allFolders[k]]]]
           u == Advance(t, files, folders, settings)
       IN  /\ tasks' = tasks \o Running(<<u>>)
           /\ threw' = threw \cup Threw(<<u>>)
           /\ notice' = IF u.pc = "done" THEN NoticeOf(u) ELSE notice
    /\ nEvents' = nEvents + 1
    /\ UNCHANGED <<scan, patchLog, content, files, folders, settings, hist, origin, window>>

(***************************************************************************)
(* The vault of Scenario A and the paths the user acts on                   *)
(***************************************************************************)
Projects == <<"Projects">>

Sub == <<"Sub">>

Archive == <<"Archive">>

ProjectsDir == <<Projects>>

SubDir == <<Projects, Sub>>

ArchiveDir == <<Projects, Archive>>

ProjectsIndex == <<Projects, <<"0", "0", " ", "-", " ", "Projects", ".md">>>>

NotesDoc == <<Projects, <<"Notes", ".md">>>>

AlphaDoc == <<Projects, <<"Alpha", ".md">>>>

SubIndex == <<Projects, Sub, <<"0", "0", " ", "-", " ", "Sub", ".md">>>>

MovedNotesDoc == <<Projects, Sub, <<"Notes", ".md">>>>

ScenarioAFolders == {<<>>, ProjectsDir, SubDir}

ScenarioAPaths == <<ProjectsIndex, NotesDoc, SubIndex>>

\* every index document starts with the Contents section its folder calls for
InSyncVault(paths, D, S) ==
    LET bare == [i \in 1..Len(paths) |-> [path |-> paths[i], content |-> <<>>]]
        isIndex(p) == \E k \in 1..Len(getIndexFiles(bare, S.indexIdentifier, S.ignoredFolders)) :
                          getIndexFiles(bare, S.indexIdentifier, S.ignoredFolders)[k] = p
    IN  [i \in 1..Len(paths) |->
            [path |-> paths[i],
             content |-> IF isIndex(paths[i])
                         THEN formatContentsSection(newListContentOf(bare, D, S, paths[i]))
                         ELSE <<>>]]

NoStripSettings == [DefaultSettings EXCEPT !.displayStripPattern = <<>>]

IgnoreSubSettings == [DefaultSettings EXCEPT !.ignoredFolders = <<SubDir>>]

IgnoreDocSettings == [DefaultSettings EXCEPT !.ignoredFolders = <<SubIndex>>]

\* one attribute added on the settings tab ("key:value", both trimmed)
FrontmatterSettings ==
    [DefaultSettings EXCEPT !.frontmatterAttributes = <<[key |-> <<"tags">>, value |-> <<"index">>]>>]

VaultSettings ==
    {DefaultSettings, NoStripSettings, IgnoreSubSettings, IgnoreDocSettings, FrontmatterSettings}

UserFiles == {NotesDoc, AlphaDoc, SubIndex, ProjectsIndex}

UserFileMoves == {<<NotesDoc, MovedNotesDoc>>, <<NotesDoc, AlphaDoc>>}

UserFolders == {ArchiveDir}

UserFolderMoves == {<<SubDir, ArchiveDir>>}

InitVault ==
    /\ patchLog = <<>>
    /\ content = <<>>
    /\ settings \in VaultSettings
    /\ folders = ScenarioAFolders
    /\ files = InSyncVault(ScenarioAPaths, ScenarioAFolders, settings)
    /\ tasks = <<>>
    /\ hist = <<>>
    /\ notice = NoNotice
    /\ threw = {}
    /\ nEvents = 0
    /\ origin = files
    /\ window = 0
    /\ scan = NoScan

NextVault ==
    \/ \E p \in UserFiles : UserCreateFile(p)
    \/ \E p \in UserFiles : UserDeleteFile(p)
    \/ \E m \in UserFileMoves : UserRenameFile(m[1], m[2])
    \/ \E d \in UserFolders : UserCreateFolder(d)
    \/ \E d \in UserFolders : UserDeleteFolder(d)
    \/ \E m \in UserFolderMoves : UserRenameFolder(m[1], m[2])
    \/ \E p \in UserFiles : CmdFolder(p)
    \/ CmdVault
    \/ \E p \in UserFiles : UserEdit(p)
    \/ \E i \in 1..Len(tasks) : TimerFires(i)
    \/ \E i \in 1..Len(tasks) : CreateCompletes(i)
    \/ \E i \in 1..Len(tasks) : RenameCompletes(i)
    \/ \E i \in 1..Len(tasks) : ReadCompletes(i)
    \/ \E i \in 1..Len(tasks) : WriteCompletes(i)

SpecVault == InitVault /\ [][NextVault]_vars

(***************************************************************************)
(* Region patcher as a state machine: a document text made of at most      *)
(* MaxPieces pieces, a content, and replaceMarkedSection applied to the    *)
(* text, then to its own result.                                           *)
(***************************************************************************)
Pieces == {<<"#">>, <<" ">>, <<NL>>, <<"x">>, CONTENTS_HEADING}

RECURSIVE TextsOf(_)
TextsOf(n) ==
    IF n = 0 THEN {<<>>}
    ELSE LET shorter == TextsOf(n - 1)
         IN  shorter \cup {t \o p : t \in shorter, p \in Pieces}

PatchContents ==
    { <<>>,
      <<"x">>,
      <<" ", "x", NL>>,
      <<"1", ".", " ", "[[", "Notes", "]]">>,
      <<"#", " ", "x">>,
      <<"x", NL, "#", "#", " ", "x">>,
      <<"x", NL, "#">> }

InitPatch ==
    /\ patchLog \in {<<t>> : t \in TextsOf(MaxPieces)}
    /\ content \in PatchContents
    /\ files = <<>>
    /\ folders = {<<>>}
    /\ settings = DefaultSettings
    /\ tasks = <<>>
    /\ hist = <<>>
    /\ notice = NoNotice
    /\ threw = {}
    /\ nEvents = 0
    /\ origin = <<>>
    /\ window = 0
    /\ scan = NoScan

Merge ==
    /\ Len(patchLog) <= MaxMerges
    /\ patchLog' = Append(patchLog, replaceMarkedSection(patchLog[Len(patchLog)], content))
    /\ UNCHANGED <<content, vaultVars>>

NextPatch == Merge

SpecPatch == InitPatch /\ [][NextPatch]_vars

(***************************************************************************)
(* One index document at the vault root, any initial text                   *)
(***************************************************************************)
\* the pieces initial texts are made of: line break, heading marker, the rendering
\* of an empty folder, the Contents heading
DocPieces == {<<NL>>, <<"#", " ">>, NO_FILES_FOUND, CONTENTS_HEADING}

RECURSIVE DocTextsOf(_)
DocTextsOf(n) ==
    IF n = 0 THEN {<<>>}
    ELSE LET shorter == DocTextsOf(n - 1)
         IN  shorter \cup {t \o p : t \in shorter, p \in DocPieces}

RootIndex == << <<"0", "0", " ", "-", " ", "Index", ".md">> >>

RootNotes == << <<"Notes", ".md">> >>

InitDoc ==
    /\ patchLog = <<>>
    /\ content = <<>>
    /\ settings = DefaultSettings
    /\ folders = {<<>>}
    /\ \E t \in DocTextsOf(MaxDocPieces) : files = <<[path |-> RootIndex, content |-> t]>>
    /\ tasks = <<>>
    /\ hist = <<>>
    /\ notice = NoNotice
    /\ threw = {}
    /\ nEvents = 0
    /\ origin = files
    /\ window = 2
    /\ scan = NoScan

NextDoc ==
    \/ UserCreateFile(RootNotes)
    \/ UserDeleteFile(RootNotes)
    \/ CmdFolder(RootIndex)
    \/ CmdVault
    \/ \E i \in 1..Len(tasks) : ReadCompletes(i)
    \/ \E i \in 1..Len(tasks) : WriteCompletes(i)

SpecDoc == InitDoc /\ [][NextDoc]_vars

(***************************************************************************)
(* Folder scanner and pattern matcher as a state machine: a tree, an        *)
(* identifier pattern and an ignore list are drawn, then the scanner and    *)
(* the matcher are called on them.                                          *)
(***************************************************************************)
Unclosed == <<"(", "unclosed">>

ExtraIndex == <<Projects, <<"0", "1", " ", "-", " ", "Notes", ".md">>>>

SubExtraIndex == <<Projects, Sub, <<"0", "1", " ", "-", " ", "Notes", ".md">>>>

DeepDir == <<Projects, Sub, Archive>>

DeepIndex == <<Projects, Sub, Archive, <<"0", "0", " ", "-", " ", "Archive", ".md">>>>

UnclosedDoc == <<Projects, Unclosed \o <<".md">>>>

ScanDocs == <<ProjectsIndex, NotesDoc, ExtraIndex, SubIndex, SubExtraIndex, DeepIndex,
              RootIndex, UnclosedDoc>>

ScanFolders == {<<>>, ProjectsDir, SubDir, DeepDir}

\* the documents of ScanDocs at the positions in picks, in enumeration order or
\* in the reverse order
RECURSIVE Pick(_, _)
Pick(picks, k) ==
    IF k > Len(ScanDocs) THEN <<>>
    ELSE (IF k \in picks THEN <<ScanDocs[k]>> ELSE <<>>) \o Pick(picks, k + 1)

Reverse(q) == [i \in 1..Len(q) |-> q[Len(q) + 1 - i]]

ScanTrees ==
    LET some == {picks \in SUBSET (1..Len(ScanDocs)) : Cardinality(picks) <= MaxScanDocs}
    IN  {Pick(picks, 1) : picks \in some} \cup {Reverse(Pick(picks, 1)) : picks \in some}

ScanPatterns == {DEFAULT_IDENTIFIER, <<>>, Unclosed, <<"Notes">>}

ScanIgnores == {<<>>, <<SubDir>>, <<ProjectsDir>>, <<SubIndex>>}

MatchNames ==
    { <<>>, Unclosed, <<"unclosed">>, <<"Notes">>, <<"x", "Notes">>,
      <<"0", "0", " ", "-", " ", "Notes">>, <<"x", "0", "0", " ", "-", " ", "Notes">> }

InitScan ==
    /\ patchLog = <<>>
    /\ content = <<>>
    /\ \E pattern \in ScanPatterns, ignored \in ScanIgnores :
           settings = [DefaultSettings EXCEPT !.indexIdentifier = pattern,
                                              !.ignoredFolders = ignored]
    /\ folders = ScanFolders
    /\ \E tree \in ScanTrees : files = Bare(tree)
    /\ tasks = <<>>
    /\ hist = <<>>
    /\ notice = NoNotice
    /\ threw = {}
    /\ nEvents = 0
    /\ origin = files
    /\ window = 0
    /\ scan = NoScan

scanned == <<patchLog, content, files, folders, settings, tasks, hist, notice, threw,
             nEvents, origin, window>>

ScanIndexes ==
    /\ scan' = [op |-> "indexes", arg |-> <<>>, matched |-> FALSE,
                out |-> getIndexFiles(files, settings.indexIdentifier, settings.ignoredFolders)]
    /\ UNCHANGED scanned

ScanSiblings(indexFile) ==
    /\ Exists(files, indexFile)
    /\ scan' = [op |-> "siblings", arg |-> indexFile, matched |-> FALSE,
                out |-> getSiblingFiles(files, indexFile, settings.indexIdentifier,
                                        settings.ignoredFolders)]
    /\ UNCHANGED scanned

ScanNested(indexFile) ==
    /\ Exists(files, indexFile)
    /\ scan' = [op |-> "nested", arg |-> indexFile, matched |-> FALSE,
                out |-> getNestedIndexFiles(files, folders, indexFile,
                                            settings.indexIdentifier, settings.ignoredFolders)]
    /\ UNCHANGED scanned

Match(basename) ==
    /\ scan' = [op |-> "match", arg |-> basename, out |-> <<>>,
                matched |-> matchesIdentifier(basename, settings.indexIdentifier)]
    /\ UNCHANGED scanned

NextScan ==
    \/ ScanIndexes
    \/ \E f \in Range(ScanDocs) : ScanSiblings(f)
    \/ \E f \in Range(ScanDocs) : ScanNested(f)
    \/ \E name \in MatchNames : Match(name)

SpecScan == InitScan /\ [][NextScan]_vars

(***************************************************************************)
(* The event handlers on their own: the Scenario A vault, in sync, and the  *)
(* user creating, deleting, renaming and moving documents (SpecFileEvents)  *)
(* or folders (SpecFolderEvents) while the handlers of earlier events are   *)
(* still suspended.                                                         *)
(***************************************************************************)
NumberedDir == <<Projects, <<"0", "1", " ", "-", " ", "Archive">>>>

ArchiveIndex == <<Projects, Archive, <<"0", "0", " ", "-", " ", "Archive", ".md">>>>

InvalidPatternSettings == [DefaultSettings EXCEPT !.indexIdentifier = Unclosed]

IgnoreTwoSettings == [DefaultSettings EXCEPT !.ignoredFolders = <<SubDir, ArchiveDir>>]

\* the "auto-update indexes" toggle switched off
AutoOffSettings == [DefaultSettings EXCEPT !.autoUpdateIndexes = FALSE]

EventSettings == {DefaultSettings, IgnoreTwoSettings, InvalidPatternSettings, AutoOffSettings}

InitEvents ==
    /\ patchLog = <<>>
    /\ content = <<>>
    /\ settings \in EventSettings
    /\ folders = ScenarioAFolders
    /\ files = InSyncVault(ScenarioAPaths, ScenarioAFolders, settings)
    /\ tasks = <<>>
    /\ hist = <<>>
    /\ notice = NoNotice
    /\ threw = {}
    /\ nEvents = 0
    /\ origin = files
    /\ window = 0
    /\ scan = NoScan

\* documents are created, deleted, renamed and moved; a folder is renamed; the
\* whole-vault command is run
FileEventFiles == {NotesDoc, AlphaDoc}

FileEventMoves == {<<NotesDoc, MovedNotesDoc>>, <<NotesDoc, AlphaDoc>>}

FileEventFolderMoves == {<<SubDir, ArchiveDir>>}

NextFileEvents ==
    \/ \E p \in FileEventFiles : UserCreateFile(p)
    \/ \E p \in FileEventFiles : UserDeleteFile(p)
    \/ \E m \in FileEventMoves : UserRenameFile(m[1], m[2])
    \/ \E m \in FileEventFolderMoves : UserRenameFolder(m[1], m[2])
    \/ CmdVault
    \/ \E i \in 1..Len(tasks) : TimerFires(i)
    \/ \E i \in 1..Len(tasks) : RenameCompletes(i)
    \/ \E i \in 1..Len(tasks) : ReadCompletes(i)
    \/ \E i \in 1..Len(tasks) : WriteCompletes(i)

SpecFileEvents == InitEvents /\ [][NextFileEvents]_vars

\* folders are created, deleted and renamed; documents are created and deleted
\* in the parent folder and at the path of an auto-created index document
EventFolders == {ArchiveDir, NumberedDir}

EventFolderMoves == {<<SubDir, ArchiveDir>>, <<NumberedDir, ArchiveDir>>}

FolderEventFiles == {ArchiveIndex, AlphaDoc}

NextFolderEvents ==
    \/ \E d \in EventFolders : UserCreateFolder(d)
    \/ \E d \in EventFolders : UserDeleteFolder(d)
    \/ \E m \in EventFolderMoves : UserRenameFolder(m[1], m[2])
    \/ \E p \in FolderEventFiles : UserCreateFile(p)
    \/ \E p \in FolderEventFiles : UserDeleteFile(p)
    \/ \E i \in 1..Len(tasks) : TimerFires(i)
    \/ \E i \in 1..Len(tasks) : CreateCompletes(i)
    \/ \E i \in 1..Len(tasks) : RenameCompletes(i)
    \/ \E i \in 1..Len(tasks) : ReadCompletes(i)
    \/ \E i \in 1..Len(tasks) : WriteCompletes(i)

SpecFolderEvents == InitEvents /\ [][NextFolderEvents]_vars

\* the bulk command on a vault with two folders that have no index document (the
\* root and Projects/Archive), while documents are created and deleted
ArchiveExtraIndex == <<Projects, Archive, NameOf(ExtraIndex)>>

InitBulk ==
    /\ patchLog = <<>>
    /\ content = <<>>
    /\ settings \in EventSettings
    /\ folders = ScenarioAFolders \cup {ArchiveDir}
    /\ files = InSyncVault(ScenarioAPaths, folders, settings)
    /\ tasks = <<>>
    /\ hist = <<>>
    /\ notice = NoNotice
    /\ threw = {}
    /\ nEvents = 0
    /\ origin = files
    /\ window = 0
    /\ scan = NoScan

NextBulk ==
    \/ CmdBulk
    \/ \E p \in {ArchiveIndex, ArchiveExtraIndex} : UserCreateFile(p)
    \/ \E p \in {ArchiveIndex, ArchiveExtraIndex, SubIndex} : UserDeleteFile(p)
    \/ \E i \in 1..Len(tasks) : CreateCompletes(i)
    \/ \E i \in 1..Len(tasks) : ReadCompletes(i)
    \/ \E i \in 1..Len(tasks) : WriteCompletes(i)

SpecBulk == InitBulk /\ [][NextBulk]_vars

(***************************************************************************)
(* Front-matter injection as a state machine: a document text with or      *)
(* without a `---` block of at most MaxYamlLines lines, and                 *)
(* injectFrontmatter applied to the text, then to its own result.           *)
(***************************************************************************)
InitYaml ==
    LET line   == { <<"k", ":", " ", "v">>, <<"k", ":", " ", "w">>, <<"k", ":">>,
                    <<"tags", ":", " ", "old">>, <<"url", ":", " ", "a", ":", "b">>,
                    <<"-", " ", "v">>, <<":", " ", "v">>, <<>> }
        blocks == UNION {[1..n -> line] : n \in 0..MaxYamlLines}
        body   == {<<>>, <<"text">>, <<"text", NL, "---", NL, "more">>}
        closed(b) == IF b = <<>> THEN <<"---", NL, "---">>
                     ELSE <<"---", NL>> \o JoinLines(b) \o <<NL, "---">>
        texts  == body \cup {<<"---", NL>> \o t : t \in body}
                       \cup {closed(b) : b \in blocks}
                       \cup {closed(b) \o <<NL>> \o t : b \in blocks, t \in body}
    IN  /\ patchLog \in {<<t>> : t \in texts}
        /\ settings \in
               { DefaultSettings, FrontmatterSettings,
                 [DefaultSettings EXCEPT !.frontmatterAttributes =
                     << [key |-> <<"tags">>, value |-> <<"index">>],
                        [key |-> <<"type">>, value |-> <<"moc">>] >>] }
        /\ content = <<>>
        /\ files = <<>>
        /\ folders = {<<>>}
        /\ tasks = <<>>
        /\ hist = <<>>
        /\ notice = NoNotice
        /\ threw = {}
        /\ nEvents = 0
        /\ origin = <<>>
        /\ window = 0
        /\ scan = NoScan

Inject ==
    /\ Len(patchLog) <= MaxMerges
    /\ patchLog' = Append(patchLog, injectFrontmatter(patchLog[Len(patchLog)],
                                                     settings.frontmatterAttributes))
    /\ UNCHANGED <<content, vaultVars>>

NextYaml == Inject

SpecYaml == InitYaml /\ [][NextYaml]_vars

(***************************************************************************)
(* Region patcher properties                                               *)
(***************************************************************************)
T0 == patchLog[1]
T1 == patchLog[2]
T2 == patchLog[3]

Hashes(k) == [j \in 1..k |-> "#"]

\* a markdown heading line (one to six # then whitespace) starts right after
\* the newline at 1-based position p of t
HeadingLineAfter(t, p) ==
    /\ p <= Len(t)
    /\ t[p] = NL
    /\ \E k \in 1..6 :
          /\ p + k + 1 <= Len(t)
          /\ SubSeq(t, p + 1, p + k) = Hashes(k)
          /\ t[p + k + 1] \in {" ", NL}

HasRegion(t) == \E i \in 1..(Len(t) - 3) : SubSeq(t, i, i + 3) = CONTENTS_HEADING

\* 1-based position of the first token of the opening boundary
OpeningBoundary(t) ==
    MinOf({i \in 1..(Len(t) - 3) : SubSeq(t, i, i + 3) = CONTENTS_HEADING})

\* 1-based position of the newline that ends the region, Len(t) + 1 at end of document
ClosingBoundary(t) ==
    MinOf({p \in (OpeningBoundary(t) + 4)..Len(t) : HeadingLineAfter(t, p)} \cup {Len(t) + 1})

\* no line of c begins with one to six # followed by whitespace or the line end
HeadingFree(c) == \A p \in 1..(Len(c) + 1) : ~HeadingLineAfter(<<NL>> \o c \o <<NL>>, p)

\* C4 (as stated): merge is idempotent for any document text and any content C:
\* merge(merge(text, C), C) = merge(text, C).
C4_IdempotentAnyContent ==
    Len(patchLog) >= 3 => T2 = T1

\* C4 (amended): merge(merge(text, C), C) = merge(text, C) for any document text
\* and any content C none of whose lines begins with a heading marker.
C4_IdempotentHeadingFree ==
    (Len(patchLog) >= 3 /\ HeadingFree(content)) => T2 = T1

C4_Witness ==
    /\ Len(patchLog) >= 3
    /\ HeadingFree(content)
    /\ HasRegion(T0)
    /\ ClosingBoundary(T0) <= Len(T0)
    /\ T1 # T0
    /\ T2 = T1

\* C5 (as stated): extract(merge(text, C)) trimmed equals C trimmed for any
\* document text and any content C.
C5_RoundTripAnyContent ==
    Len(patchLog) >= 2 => trim(extractMarkedSection(T1)) = trim(content)

\* C5 (amended): extract(merge(text, C)) trimmed equals C trimmed for any document
\* text and any content C none of whose lines begins with a heading marker.
C5_RoundTripHeadingFree ==
    (Len(patchLog) >= 2 /\ HeadingFree(content))
        => trim(extractMarkedSection(T1)) = trim(content)

C5_Witness ==
    /\ Len(patchLog) = 2
    /\ HeadingFree(content)
    /\ content # trim(content)
    /\ HasRegion(T0)
    /\ extractMarkedSection(T0) # trim(content)
    /\ extractMarkedSection(T1) = trim(content)

\* C6: when the document has a managed region, merge keeps the text before the
\* opening boundary and the text from the closing boundary onward verbatim, with
\* the freshly formatted region (heading, blank line, content) between them.
C6_MergeChangesOnlyRegion ==
    (Len(patchLog) >= 2 /\ HasRegion(T0))
        => T1 = SubSeq(T0, 1, OpeningBoundary(T0) - 1)
                \o CONTENTS_HEADING \o <<NL, NL>> \o content
                \o SubSeq(T0, ClosingBoundary(T0), Len(T0))

C6_Witness ==
    /\ Len(patchLog) = 2
    /\ HasRegion(T0)
    /\ OpeningBoundary(T0) > 1
    /\ ClosingBoundary(T0) <= Len(T0)
    /\ ClosingBoundary(T0) > OpeningBoundary(T0) + 4
    /\ T1 # T0

\* number of tokens of t that remain once trailing whitespace is removed
TrimmedLen(t) ==
    CHOOSE n \in 0..Len(t) :
        /\ \A i \in (n + 1)..Len(t) : t[i] \in {" ", NL}
        /\ n > 0 => t[n] \notin {" ", NL}

\* C7 (as stated): without a `## Contents` heading extract returns none and merge
\* appends: the text with trailing whitespace trimmed, a blank line, the formatted
\* section; the formatted section alone if the document is empty.
C7_AppendUnlessEmpty ==
    (Len(patchLog) >= 2 /\ ~HasRegion(T0))
        => /\ extractMarkedSection(T0) = Null
           /\ T1 = IF T0 = <<>>
                   THEN CONTENTS_HEADING \o <<NL, NL>> \o content
                   ELSE SubSeq(T0, 1, TrimmedLen(T0)) \o <<NL, NL>>
                            \o CONTENTS_HEADING \o <<NL, NL>> \o content

\* C7 (amended): as stated, except that the formatted section stands alone when
\* the document is empty or consists of whitespace only.
C7_AppendUnlessBlank ==
    (Len(patchLog) >= 2 /\ ~HasRegion(T0))
        => /\ extractMarkedSection(T0) = Null
           /\ T1 = IF TrimmedLen(T0) = 0
                   THEN CONTENTS_HEADING \o <<NL, NL>> \o content
                   ELSE SubSeq(T0, 1, TrimmedLen(T0)) \o <<NL, NL>>
                            \o CONTENTS_HEADING \o <<NL, NL>> \o content

C7_Witness ==
    /\ Len(patchLog) = 2
    /\ ~HasRegion(T0)
    /\ TrimmedLen(T0) > 0
    /\ TrimmedLen(T0) < Len(T0)
    /\ content # <<>>

(***************************************************************************)
(* Reconciliation pass properties (SpecDoc)                                 *)
(***************************************************************************)
\* the text between the Contents heading and the closing boundary, Null if the
\* document has no Contents heading
RegionOf(t) ==
    IF HasRegion(t) THEN SubSeq(t, OpeningBoundary(t) + 4, ClosingBoundary(t) - 1) ELSE Null

RegionCount(t) == Cardinality({i \in 1..(Len(t) - 3) : SubSeq(t, i, i + 3) = CONTENTS_HEADING})

\* hist[k + 1] ran right after hist[k] on the same document: it read what hist[k]
\* left in the store and saw the same document tree
InARow(k) ==
    /\ k + 1 <= Len(hist)
    /\ hist[k + 1].idx = hist[k].idx
    /\ hist[k + 1].tree = hist[k].tree
    /\ hist[k + 1].pre = hist[k].post

\* C2: reconciling the same index document twice in a row with no change to the
\* document tree in between leaves the text after the second pass identical to
\* the text after the first; the second pass writes nothing and reports unchanged.
C2_SecondPassIsNoOp ==
    \A k \in 1..Len(hist) :
        InARow(k) => /\ hist[k + 1].post = hist[k].post
                     /\ ~hist[k + 1].wrote
                     /\ ~hist[k + 1].ret

C2_Witness ==
    /\ InARow(1)
    /\ hist[1].wrote
    /\ hist[1].post # hist[1].pre
    /\ ~hist[2].wrote

\* C3: a pass writes the document if and only if the trimmed candidate differs
\* from the trimmed content of the managed region (none when there is no region);
\* it reports updated exactly when it wrote; a skipped pass leaves the stored
\* document unchanged.
C3_WritesIffRegionDiffers ==
    \A k \in 1..Len(hist) :
        LET h      == hist[k]
            region == RegionOf(h.pre)
            equal  == region # Null /\ trim(region) = trim(h.cand)
        IN  /\ h.wrote <=> ~equal
            /\ h.ret <=> h.wrote
            /\ ~h.wrote => h.post = h.pre

C3_Witness ==
    /\ Len(hist) = 2
    /\ hist[1].wrote /\ HasRegion(hist[1].pre) /\ trim(RegionOf(hist[1].pre)) # <<>>
    /\ ~hist[2].wrote

OriginText == origin[1].content

DocText == ContentOf(files, RootIndex)

\* C8: a document that started with at most one Contents region never has more
\* than one, and has exactly one once a reconciliation pass has completed on it.
C8_NeverSecondRegion ==
    RegionCount(OriginText) <= 1 =>
        /\ RegionCount(DocText) <= 1
        /\ hist # <<>> => RegionCount(DocText) = 1

C8_Witness ==
    /\ RegionCount(OriginText) = 0
    /\ Len(hist) = 2
    /\ hist[1].wrote /\ hist[2].wrote
    /\ hist[2].pre = hist[1].post
    /\ RegionCount(DocText) = 1

(***************************************************************************)
(* Vault properties (SpecVault)                                             *)
(***************************************************************************)
IndexDocuments == Range(getIndexFiles(files, settings.indexIdentifier, settings.ignoredFolders))

\* the Contents section of the index document is the rendering of its folder
InSync(indexFile) ==
    LET text == ContentOf(files, indexFile)
    IN  /\ HasRegion(text)
        /\ trim(RegionOf(text)) = trim(newListContentOf(files, folders, settings, indexFile))

Quiescent == tasks = <<>> /\ threw = {}

\* C1 (as stated): with auto-update enabled, once every triggered handler has run
\* to completion, the Contents section of every non-ignored index document equals
\* the rendering of its folder's current siblings and nested indexes.
C1_QuiescentInSync ==
    (settings.autoUpdateIndexes /\ Quiescent) => \A f \in IndexDocuments : InSync(f)

\* path is an ignored folder path or lies under one
Ignored(path) ==
    \E k \in 1..Len(settings.ignoredFolders) :
        LET folder == settings.ignoredFolders[k]
        IN  path = folder \/ (Len(path) > Len(folder) /\ SubSeq(path, 1, Len(folder)) = folder)

\* C9 (as stated): a document whose path equals an ignored folder path, or lies
\* under one, never appears in the output of listIndexDocuments, listSiblings or
\* listNestedIndexes.
C9_IgnoredNeverListed ==
    /\ \A p \in IndexDocuments : ~Ignored(p)
    /\ \A f \in Range(getMarkdownFiles(files)) :
          /\ \A p \in Range(getSiblingFiles(files, f, settings.indexIdentifier,
                                            settings.ignoredFolders)) : ~Ignored(p)
          /\ \A p \in Range(getNestedIndexFiles(files, folders, f, settings.indexIdentifier,
                                                settings.ignoredFolders)) : ~Ignored(p)

ScenarioAContents ==
    <<"1", ".", " ", "[[", "0", "0", " ", "-", " ", "Sub", "|", "DIR", " ", "Sub", "]]", NL,
      "2", ".", " ", "[[", "Notes", "]]">>

\* C10 (as stated): in the vault of Scenario A, reconciling 00 - Projects.md with
\* ascending order, the default display format and no strip pattern yields the
\* list `1. [[00 - Sub|DIR Sub]]`, `2. [[Notes]]`.
C10_ScenarioA ==
    \A i \in 1..Len(tasks) :
        ( /\ tasks[i].pc = "read"
          /\ tasks[i].idx = ProjectsIndex
          /\ tasks[i].tree = <<ScenarioAPaths, ScenarioAFolders>>
          /\ settings = NoStripSettings )
        => tasks[i].cand = ScenarioAContents

(***************************************************************************)
(* Rendered list properties                                                 *)
(***************************************************************************)
ListLines(list) == IF list = NO_FILES_FOUND THEN <<>> ELSE SplitBy(list, NL)

\* the link target of a list line: the tokens between "[[" and "|" or "]]"
LinkTarget(line) ==
    LET open  == indexOf(line, <<"[[">>)
        bar   == indexOf(line, <<"|">>)
        close == indexOf(line, <<"]]">>)
    IN  SubSeq(line, open + 2, IF bar # -1 THEN bar ELSE close)

\* a before b in the given order of document names
InOrder(a, b, sortOrder) ==
    IF sortOrder = <<"asc">>
    THEN localeCompare(a \o <<".md">>, b \o <<".md">>) <= 0
    ELSE localeCompare(a \o <<".md">>, b \o <<".md">>) >= 0

\* list is a rendering of the nested indexes, then the siblings, each group in
\* the given order of names, numbered from 1
WellOrdered(list, nested, siblings, sortOrder) ==
    LET lines == ListLines(list)
        n     == Len(nested)
        name(k) == LinkTarget(lines[k])
    IN  /\ Len(lines) = n + Len(siblings)
        /\ \A k \in 1..Len(lines) : lines[k][1] = Ordinal(k)
        /\ {name(k) : k \in 1..n} = {BasenameOf(nested[j]) : j \in 1..n}
        /\ {name(k) : k \in (n + 1)..Len(lines)} = {BasenameOf(siblings[j]) : j \in 1..Len(siblings)}
        /\ \A k \in 1..Len(lines) : \A m \in (k + 1)..Len(lines) :
              (k <= n <=> m <= n) => InOrder(name(k), name(m), sortOrder)

\* C11 (as stated): in the list rendered for an index document the nested-index
\* entries come before the sibling entries, each group ordered by document name
\* in the configured sort order (non-decreasing for ascending, non-increasing
\* for descending), the ordinals running 1..n.
C11_RenderedInSortOrder ==
    \A i \in 1..Len(tasks) :
        tasks[i].pc = "read" =>
            LET F == Bare(tasks[i].tree[1])
                D == tasks[i].tree[2]
            IN  WellOrdered(tasks[i].cand,
                            getNestedIndexFiles(F, D, tasks[i].idx, settings.indexIdentifier,
                                                settings.ignoredFolders),
                            getSiblingFiles(F, tasks[i].idx, settings.indexIdentifier,
                                            settings.ignoredFolders),
                            settings.sortOrder)

(***************************************************************************)
(* Folder scanner and pattern matcher properties (SpecScan)                 *)
(***************************************************************************)
Contains(s, part) == \E i \in 0..(Len(s) - Len(part)) : SubSeq(s, i + 1, i + Len(part)) = part

\* what the patterns of ScanPatterns denote: nothing for the empty pattern, two
\* digits then " - " at the start of the name for the default pattern, an
\* occurrence of the pattern text anywhere in the name for the others
Denotes(pattern, name) ==
    CASE pattern = <<>> -> FALSE
      [] pattern = DEFAULT_IDENTIFIER ->
            /\ Len(name) >= 5
            /\ name[1] \in Digits /\ name[2] \in Digits
            /\ SubSeq(name, 3, 5) = <<" ", "-", " ">>
      [] OTHER -> Contains(name, pattern)

IsIndexName(path) == Denotes(settings.indexIdentifier, SubSeq(path[Len(path)], 1, Len(path[Len(path)]) - 1))

ParentOf(path) == SubSeq(path, 1, Len(path) - 1)

Paths == {files[i].path : i \in 1..Len(files)}

\* position of a document in the enumeration of the store
PositionOf(path) == CHOOSE i \in 1..Len(files) : files[i].path = path

NoDuplicates(q) == \A i \in 1..Len(q) : \A j \in 1..Len(q) : q[i] = q[j] => i = j

\* C12: listSiblings returns exactly the documents whose parent path equals the
\* index document's parent path, minus the index document itself, minus every
\* document matching the index pattern, minus documents under an ignored path;
\* an empty result is a plain empty list.
C12_SiblingsExact ==
    scan.op = "siblings" =>
        /\ Range(scan.out) = {p \in Paths : /\ ParentOf(p) = ParentOf(scan.arg)
                                            /\ p # scan.arg
                                            /\ ~IsIndexName(p)
                                            /\ ~Ignored(p)}
        /\ NoDuplicates(scan.out)

C12_Witness ==
    /\ scan.op = "siblings"
    /\ scan.out # <<>>
    /\ \E p \in Paths : p # scan.arg /\ ParentOf(p) = ParentOf(scan.arg) /\ IsIndexName(p)
    /\ \E p \in Paths : p \notin Range(scan.out) /\ ParentOf(p) # ParentOf(scan.arg)

\* the folders directly under the given folder
ChildFolders(base) ==
    {d \in folders : Len(d) = Len(base) + 1 /\ SubSeq(d, 1, Len(base)) = base}

\* the index-named documents directly in folder d
IndexesIn(d) == {p \in Paths : ParentOf(p) = d /\ IsIndexName(p)}

\* C13: listNestedIndexes returns, for each non-ignored immediate child folder
\* of the index document's parent folder, at most one document, which lies
\* directly in that child folder and matches the index pattern (the first one
\* of the enumeration when there are several); nothing from a grandchild or
\* deeper folder, nothing from the index document's own folder.
C13_NestedDepthOne ==
    scan.op = "nested" =>
        LET children == ChildFolders(ParentOf(scan.arg))
        IN  /\ NoDuplicates(scan.out)
            /\ \A p \in Range(scan.out) :
                  /\ ParentOf(p) \in children
                  /\ ~Ignored(ParentOf(p))
                  /\ p \in IndexesIn(ParentOf(p))
            /\ \A d \in children :
                  LET found == {p \in Range(scan.out) : ParentOf(p) = d}
                  IN  /\ Cardinality(found) <= 1
                      /\ (~Ignored(d) /\ IndexesIn(d) # {}) =>
                            \E p \in found :
                                \A q \in IndexesIn(d) : PositionOf(p) <= PositionOf(q)

C13_Witness ==
    /\ scan.op = "nested"
    /\ scan.out # <<>>
    /\ \E p \in Paths : IsIndexName(p) /\ Len(p) > Len(scan.arg) + 1 /\ p \notin Range(scan.out)
    /\ \E d \in ChildFolders(ParentOf(scan.arg)) : Cardinality(IndexesIn(d)) = 2

\* C19: the pattern matcher never throws; an empty pattern matches no name; a
\* pattern that fails to compile is matched as a literal text (`(unclosed`
\* matches the name `(unclosed`); a valid pattern matches when it occurs anywhere
\* in the name unless the pattern itself anchors.
C19_MatcherFallsBack ==
    scan.op = "match" =>
        /\ scan.matched = Denotes(settings.indexIdentifier, scan.arg)
        /\ threw = {}

C19_Witness ==
    /\ scan.op = "match"
    /\ settings.indexIdentifier = Unclosed
    /\ scan.arg = Unclosed
    /\ scan.matched

(***************************************************************************)
(* Handler properties (SpecFileEvents, SpecFolderEvents)                    *)
(***************************************************************************)
NameNoExt(path) == SubSeq(path[Len(path)], 1, Len(path[Len(path)]) - 1)

\* the link targets of the Contents section of a document text
ListedIn(text) ==
    IF HasRegion(text)
    THEN {LinkTarget(l) : l \in Range(ListLines(trim(RegionOf(text))))}
    ELSE {}

\* the link targets of its nested-index entries (the lines with a display alias)
NestedListedIn(text) ==
    IF HasRegion(text)
    THEN {LinkTarget(l) : l \in {m \in Range(ListLines(trim(RegionOf(text)))) : Contains(m, <<"|">>)}}
    ELSE {}

EntriesOf(list) == {LinkTarget(l) : l \in Range(ListLines(trim(list)))}

NestedEntriesOf(list) ==
    {LinkTarget(l) : l \in {m \in Range(ListLines(trim(list))) : Contains(m, <<"|">>)}}

\* the step is not a user event and invocation i is not left as it was: every
\* resumption of invocation i is such a step
Stepped(i) == nEvents' = nEvents /\ (i > Len(tasks') \/ tasks'[i] # tasks[i])

\* the step ends the reconciliation pass invocation i is suspended in: the read
\* found the section up to date, or the write completed
PassEnds(i) ==
    /\ i \in 1..Len(tasks) /\ Exists(files, tasks[i].idx)
    /\ Stepped(i)
    /\ \/ tasks[i].pc = "write" /\ WriteCompletes(i)
       \/ /\ tasks[i].pc = "read" /\ files' = files
          /\ ~PassOutcome(settings, ContentOf(files, tasks[i].idx), tasks[i].cand).write
          /\ ReadCompletes(i)

ScenarioPattern == settings.indexIdentifier = DEFAULT_IDENTIFIER

\* the name Scenario C gives the index document of a new folder
ExpectedIndexName(d) ==
    IF Denotes(settings.indexIdentifier, d[Len(d)])
    THEN d[Len(d)] \o <<".md">>
    ELSE <<"0", "0", " ", "-", " ">> \o d[Len(d)] \o <<".md">>

FolderCreatedTasks == {t \in Range(tasks) : t.op = "create" /\ t.isFolder}

\* the index-named documents directly in folder d, in the tree a pass has scanned
IndexesInTree(t, d) == {p \in Range(t.tree[1]) : ParentOf(p) = d /\ IsIndexName(p)}

\* the folder of the event holds no index document other than the one created
OnlyIndexOfItsFolder(t) == IndexesInTree(t, t.evPath) \subseteq {t.target}

\* C14: with the identifier pattern of Scenario C and auto-update on, when a non-ignored folder
\* without an index document is created, the handler first asks the store to
\* create the index document in it, named by the template with the folder name
\* substituted or by the folder name itself if that matches the pattern, the
\* parent's index not being reconciled yet; the pass on the parent's index that
\* follows renders a nested-index entry for that document as long as the folder
\* is still there and holds no other index document, and when that pass ends the
\* parent's Contents section has it.
C14_FolderCreatedIndexThenParent ==
    [][(ScenarioPattern /\ settings.autoUpdateIndexes) =>
          /\ \A d \in EventFolders :
                (UserCreateFolder(d) /\ ~Ignored(d)) =>
                    /\ tasks' # <<>>
                    /\ LET u == tasks'[Len(tasks')]
                       IN  /\ u.op = "create" /\ u.isFolder /\ u.evPath = d
                           /\ u.pc = "creating" /\ u.idx = <<>>
                           /\ u.target = d \o <<ExpectedIndexName(d)>>
          /\ \A i \in 1..Len(tasks) :
                (tasks[i] \in FolderCreatedTasks /\ tasks[i].pc = "creating" /\ Stepped(i)
                   /\ CreateCompletes(i)
                   /\ tasks[i].evPath \in folders /\ Exists(files, ProjectsIndex)) =>
                    \E u \in Range(tasks') :
                        /\ u.op = "create" /\ u.isFolder /\ u.evPath = tasks[i].evPath
                        /\ u.pc = "read" /\ u.idx = ProjectsIndex
                        /\ OnlyIndexOfItsFolder(u) =>
                               /\ Exists(files', u.target)
                               /\ NameNoExt(u.target) \in NestedEntriesOf(u.cand)
          /\ \A i \in 1..Len(tasks) :
                (tasks[i] \in FolderCreatedTasks /\ PassEnds(i)
                   /\ tasks[i].evPath \in tasks[i].tree[2] /\ OnlyIndexOfItsFolder(tasks[i])) =>
                    /\ ParentOf(tasks[i].idx) = ParentOf(tasks[i].evPath)
                    /\ NameNoExt(tasks[i].target) \in NestedListedIn(ContentOf(files', tasks[i].idx))
       ]_vars

\* the folder was created, nothing else happened, and the handlers have ended
C14_Witness ==
    /\ nEvents = 1 /\ Quiescent /\ settings = DefaultSettings
    /\ ArchiveDir \in folders /\ Exists(files, ArchiveIndex)
    /\ <<"0", "0", " ", "-", " ", "Archive">> \in NestedListedIn(ContentOf(files, ProjectsIndex))

\* the folder of document p has an index document the handlers reconcile
Reconciled(p) ==
    /\ settings.autoUpdateIndexes
    /\ ~IsIndexName(p)
    /\ ~Ignored(ParentOf(p))
    /\ IndexesIn(ParentOf(p)) # {}

\* C15: when a document that is not an index document is created in, or deleted
\* from, a non-ignored folder that has an index document, the event leaves a
\* handler suspended in a pass on that index document whose candidate list has
\* (create) or has not (delete) the document, and when that pass ends the stored
\* Contents section lists, respectively no longer lists, the document.
C15_CreatedListedDeletedUnlisted ==
    [][/\ \A p \in FileEventFiles :
            (UserCreateFile(p) /\ Reconciled(p)) =>
                /\ tasks' # <<>>
                /\ LET u == tasks'[Len(tasks')]
                   IN  /\ u.op = "create" /\ u.evPath = p /\ u.pc = "read"
                       /\ u.idx \in IndexesIn(ParentOf(p))
                       /\ NameNoExt(p) \in EntriesOf(u.cand) \ NestedEntriesOf(u.cand)
       /\ \A p \in FileEventFiles :
            (UserDeleteFile(p) /\ Reconciled(p)) =>
                /\ tasks' # <<>>
                /\ LET u == tasks'[Len(tasks')]
                   IN  /\ u.op = "delete" /\ u.evPath = p /\ u.pc = "read"
                       /\ u.idx \in IndexesIn(ParentOf(p))
                       /\ NameNoExt(p) \notin EntriesOf(u.cand)
       /\ \A i \in 1..Len(tasks) :
            (/\ tasks[i].op \in {"create", "delete"}
             /\ PassEnds(i) /\ ~tasks[i].isFolder /\ ~IsIndexName(tasks[i].evPath)) =>
                /\ tasks[i].op = "create" =>
                       NameNoExt(tasks[i].evPath) \in ListedIn(ContentOf(files', tasks[i].idx))
                /\ tasks[i].op = "delete" =>
                       NameNoExt(tasks[i].evPath) \notin ListedIn(ContentOf(files', tasks[i].idx))
      ]_vars

\* Alpha.md was created and Notes.md deleted, and the handlers have ended
C15_Witness ==
    /\ nEvents = 2 /\ Quiescent /\ settings = DefaultSettings
    /\ Exists(files, AlphaDoc) /\ ~Exists(files, NotesDoc)
    /\ <<"Alpha">> \in ListedIn(ContentOf(files, ProjectsIndex))
    /\ <<"Notes">> \notin ListedIn(ContentOf(files, ProjectsIndex))

\* folder f is not ignored and has an index document
HasIndexToReconcile(f) == ~Ignored(f) /\ IndexesIn(f) # {}

\* the folders whose index a rename handler reconciles, in order: the old parent,
\* then the new parent if it is another folder
RenamePlan(t) ==
    LET old == ParentOf(t.oldPath)
        new == ParentOf(t.evPath)
    IN  SelectSeq(IF old = new THEN <<old>> ELSE <<old, new>>, HasIndexToReconcile)

SameHandler(u, t) == u.op = t.op /\ u.evPath = t.evPath /\ u.oldPath = t.oldPath

\* C16: after a rename or move, the handler reconciles the index of the old
\* containing folder and then the index of the new one, once when they are the
\* same folder, each only if the folder is not ignored (and has an index).  When
\* the pass on the old folder's index ends, its Contents section does not list
\* the document under its old name (no document of that name being there), and
\* when the pass on the new folder's index ends, its Contents section lists the
\* document still at its new path; for a folder, the parent's Contents section
\* lists the folder's index document and nothing that is not an index document
\* of a child folder.
C16_RenameReconcilesBothFolders ==
    [][\A i \in 1..Len(tasks) :
          LET t   == tasks[i]
              old == ParentOf(t.oldPath)
              new == ParentOf(t.evPath)
              at  == ParentOf(t.idx)
              after == ContentOf(files', t.idx)
          IN  /\ (t.op = "rename" /\ ~t.isFolder /\ t.pc = "delay" /\ Stepped(i) /\ TimerFires(i)) =>
                    IF RenamePlan(t) = <<>>
                    THEN \A u \in Range(tasks') : ~SameHandler(u, t)
                    ELSE \E u \in Range(tasks') :
                            /\ SameHandler(u, t) /\ u.pc = "read"
                            /\ ParentOf(u.idx) = RenamePlan(t)[1]
              /\ (t.op = "rename" /\ PassEnds(i)) =>
                    /\ ~Ignored(at)
                    /\ IF at = old /\ new # old /\ HasIndexToReconcile(new)
                       THEN \E u \in Range(tasks') :
                               SameHandler(u, t) /\ u.pc = "read" /\ ParentOf(u.idx) = new
                       ELSE \A u \in Range(tasks') : ~SameHandler(u, t)
                    /\ (~t.isFolder /\ ~IsIndexName(t.evPath) /\ at = new
                          /\ t.evPath \in Range(t.tree[1])) =>
                            NameNoExt(t.evPath) \in ListedIn(after)
                    /\ (~t.isFolder /\ at = old /\ t.oldPath \notin Range(t.tree[1])
                          /\ (new # old \/ NameNoExt(t.evPath) # NameNoExt(t.oldPath))) =>
                            NameNoExt(t.oldPath) \notin ListedIn(after) \ NestedListedIn(after)
                    /\ (t.isFolder /\ at = new /\ t.evPath \in t.tree[2] /\ ~Ignored(t.evPath)
                          /\ IndexesInTree(t, t.evPath) # {}) =>
                            \E p \in IndexesInTree(t, t.evPath) : NameNoExt(p) \in NestedListedIn(after)
                    /\ (t.isFolder /\ at = old) =>
                            \A n \in NestedListedIn(after) :
                                \E d \in t.tree[2] :
                                    /\ ParentOf(d) = at /\ Len(d) = Len(at) + 1
                                    /\ \E p \in IndexesInTree(t, d) : NameNoExt(p) = n
      ]_vars

\* Notes.md was moved from Projects to Projects/Sub and the handler has ended
C16_Witness ==
    /\ nEvents = 1 /\ Quiescent /\ settings = DefaultSettings
    /\ Exists(files, MovedNotesDoc) /\ ~Exists(files, NotesDoc)
    /\ <<"Notes">> \notin ListedIn(ContentOf(files, ProjectsIndex))
    /\ <<"Notes">> \in ListedIn(ContentOf(files, SubIndex))

\* the name the filename template gives the index document of folder d
TemplateName(d) == <<"0", "0", " ", "-", " ">> \o d[Len(d)] \o <<".md">>

\* the first index-named document directly in folder d, in enumeration order
FirstIndexIn(d) ==
    CHOOSE p \in IndexesIn(d) : \A q \in IndexesIn(d) : PositionOf(p) <= PositionOf(q)

\* C17: after a folder is renamed, its own index document is renamed to the
\* template applied to the new folder name exactly when it is named by the
\* template applied to the old folder name and nothing exists at the target
\* path; otherwise it keeps its name.  A rename that the store performs moves
\* that one document only, and a rename whose target has appeared meanwhile
\* leaves the store as it is: no document is overwritten.
C17_IndexFollowsFolderName ==
    [][\A i \in 1..Len(tasks) :
          LET t      == tasks[i]
              d      == t.evPath
              target == d \o <<TemplateName(d)>>
          IN  /\ (t.op = "rename" /\ t.isFolder /\ t.pc = "delay" /\ Stepped(i) /\ TimerFires(i)) =>
                    /\ files' = files
                    /\ (\E u \in Range(tasks') : SameHandler(u, t) /\ u.pc = "renaming")
                          <=> /\ IndexesIn(d) # {}
                              /\ NameOf(FirstIndexIn(d)) = TemplateName(t.oldPath)
                              /\ TemplateName(t.oldPath) # TemplateName(d)
                              /\ target \notin Paths
                    /\ \A u \in Range(tasks') :
                          (SameHandler(u, t) /\ u.pc = "renaming") =>
                              u.source = FirstIndexIn(d) /\ u.target = target
              /\ (t.pc = "renaming" /\ Stepped(i) /\ RenameCompletes(i)) =>
                    /\ t.op = "rename" /\ t.isFolder
                    /\ Len(files') = Len(files)
                    /\ \A k \in 1..Len(files) :
                          /\ files'[k].content = files[k].content
                          /\ files'[k].path =
                                IF files[k].path = t.source /\ t.target \notin Paths
                                THEN t.target ELSE files[k].path
      ]_vars

\* Projects/Sub was renamed to Projects/Archive and its index document followed
C17_Witness ==
    /\ nEvents = 1 /\ Quiescent /\ settings = DefaultSettings
    /\ ArchiveDir \in folders /\ SubDir \notin folders
    /\ Exists(files, ArchiveIndex)
    /\ \A p \in Paths : NameOf(p) # NameOf(SubIndex)

\* the store rejects the create / the rename invocation t is suspended in
CreateRejected(t) ==
    t.target \in Paths \/ t.target \in folders \/ ParentOf(t.target) \notin folders

RenameRejected(t) ==
    t.source \notin Paths \/ t.target \in Paths \/ t.target \in folders
        \/ ParentOf(t.target) \notin folders

\* C20: when the store rejects the create of an index document or the rename of
\* one, the handler swallows the rejection: nothing is thrown, the store is left
\* as it is, the call is not made again, and the handler goes on with its next
\* step, the pass on the parent folder's index (after a rejected create) or on
\* the first folder of its rename plan (after a rejected rename).
C20_RejectionSwallowed ==
    [][\A i \in 1..Len(tasks) :
          LET t == tasks[i]
              parent == ParentOf(t.evPath)
          IN  /\ (t.pc = "creating" /\ Stepped(i) /\ CreateRejected(t) /\ CreateCompletes(i)) =>
                    /\ files' = files /\ folders' = folders /\ threw' = threw
                    /\ \A u \in Range(tasks') :
                          u.swallowed > 0 => u.pc \notin {"creating", "renaming"}
                    /\ IF HasIndexToReconcile(parent)
                       THEN \E u \in Range(tasks') :
                               /\ SameHandler(u, t) /\ u.swallowed = t.swallowed + 1
                               /\ u.pc = "read" /\ ParentOf(u.idx) = parent
                       ELSE \A u \in Range(tasks') :
                               ~(SameHandler(u, t) /\ u.swallowed = t.swallowed + 1)
              /\ (t.pc = "renaming" /\ Stepped(i) /\ RenameRejected(t) /\ RenameCompletes(i)) =>
                    /\ files' = files /\ folders' = folders /\ threw' = threw
                    /\ \A u \in Range(tasks') :
                          u.swallowed > 0 => u.pc \notin {"creating", "renaming"}
                    /\ IF RenamePlan(t) # <<>>
                       THEN \E u \in Range(tasks') :
                               /\ SameHandler(u, t) /\ u.swallowed = t.swallowed + 1
                               /\ u.pc = "read" /\ ParentOf(u.idx) = RenamePlan(t)[1]
                       ELSE \A u \in Range(tasks') :
                               ~(SameHandler(u, t) /\ u.swallowed = t.swallowed + 1)
      ]_vars

\* a handler goes on with the parent's index after a create the store rejected
C20_Witness ==
    /\ threw = {}
    /\ \E t \in Range(tasks) :
          /\ t.op = "create" /\ t.isFolder /\ t.swallowed = 1
          /\ t.pc = "read" /\ t.idx = ProjectsIndex

\* a handler goes on with the parent's index after a rename the store rejected
C20_RenameRejectedReached ==
    /\ threw = {}
    /\ \E t \in Range(tasks) :
          /\ t.op = "rename" /\ t.isFolder /\ t.swallowed = 1
          /\ t.pc = "read" /\ t.idx = ProjectsIndex

\* C18 (as stated): with an identifier pattern that is not a valid regular
\* expression, no handler ends by an uncaught exception: the folder-created
\* handler completes and goes on to reconcile the parent folder's index.
C18_InvalidPatternNeverThrows ==
    settings.indexIdentifier = Unclosed => threw = {}

(***************************************************************************)
(* Front matter after a pass                                                *)
(***************************************************************************)
\* the text starts with a `---` block one of whose lines is `key: value`
\* for every configured attribute
HasFrontmatter(text, attributes) ==
    /\ Len(text) >= 2 /\ text[1] = "---" /\ text[2] = NL
    /\ \E j \in 2..(Len(text) - 2) :
          /\ text[j + 1] = NL /\ text[j + 2] = "---"
          /\ \A a \in 1..Len(attributes) :
                \E l \in 1..Len(SplitBy(SubSeq(text, 3, j), NL)) :
                    SplitBy(SubSeq(text, 3, j), NL)[l]
                        = attributes[a].key \o <<":", " ">> \o attributes[a].value

\* C21: when a pass over an index document ends and front-matter attributes
\* are configured, the stored document begins with a front-matter block that
\* holds every configured key with its value, whether or not the pass wrote.
C21_FrontmatterAfterEveryPass ==
    [][\A i \in 1..Len(tasks) :
          (settings.frontmatterAttributes # <<>> /\ PassEnds(i))
              => HasFrontmatter(ContentOf(files', tasks[i].idx), settings.frontmatterAttributes)]_vars

(***************************************************************************)
(* Display alias of nested-index entries                                    *)
(***************************************************************************)
\* the basename without the first match of the configured strip pattern (the
\* patterns of VaultSettings: none, or two digits and " - " at the start), the
\* whole basename when nothing would be left
StrippedName(name) ==
    IF /\ settings.displayStripPattern = DEFAULT_IDENTIFIER
       /\ Denotes(DEFAULT_IDENTIFIER, name) /\ Len(name) > 5
    THEN SubSeq(name, 6, Len(name))
    ELSE name

\* the configured display format with the stripped name in the place of {name}
ExpectedAlias(name) ==
    LET at == indexOf(settings.indexDisplayFormat, <<"{name}">>)
    IN  SubSeq(settings.indexDisplayFormat, 1, at) \o StrippedName(name)
            \o SubSeq(settings.indexDisplayFormat, at + 2, Len(settings.indexDisplayFormat))

\* C23 (as stated): in the list a pass renders, an entry of a nested index
\* links to the unmodified basename and carries as alias the configured display
\* format with {name} replaced by the basename stripped of the first match of
\* the configured strip pattern (unstripped when the pattern is empty or when
\* stripping leaves nothing); an entry of a sibling carries no alias.
C23_NestedAliasStripped ==
    \A i \in 1..Len(tasks) :
        tasks[i].pc = "read" =>
            LET F      == Bare(tasks[i].tree[1])
                D      == tasks[i].tree[2]
                nested == getNestedIndexFiles(F, D, tasks[i].idx, settings.indexIdentifier,
                                              settings.ignoredFolders)
                lines  == ListLines(tasks[i].cand)
            IN  \A k \in 1..Len(lines) :
                    LET name == LinkTarget(lines[k])
                        head == <<Ordinal(k), ".", " ", "[[">> \o name
                    IN  IF \E j \in 1..Len(nested) : BasenameOf(nested[j]) = name
                        THEN lines[k] = head \o <<"|">> \o ExpectedAlias(name) \o <<"]]">>
                        ELSE lines[k] = head \o <<"]]">>

(***************************************************************************)
(* Overlapping passes on one index document                                 *)
(***************************************************************************)
\* the Contents section of the index document in F is the rendering of its
\* folder in the tree F, D
SectionCurrent(F, D, indexFile) ==
    LET text == ContentOf(F, indexFile)
    IN  /\ HasRegion(text)
        /\ trim(RegionOf(text)) = trim(newListContentOf(F, D, settings, indexFile))

\* C27 (as stated): a pass that scanned an earlier tree never overwrites the
\* result of a pass that scanned a later one: when the write of a pass completes
\* on an index document whose Contents section is the rendering of the tree as
\* it is at that moment, and no invocation is left suspended afterwards, the
\* section still is that rendering.
C27_StalePassNeverOverwrites ==
    [][\A i \in 1..Len(tasks) :
          (/\ PassEnds(i) /\ tasks[i].pc = "write" /\ tasks' = <<>>
           /\ SectionCurrent(files, folders, tasks[i].idx))
              => SectionCurrent(files', folders', tasks[i].idx)]_vars

(***************************************************************************)
(* Ignored folders                                                          *)
(***************************************************************************)
\* C28 (as stated): in a step of the engine (any step that is not an action of
\* the user), no document under an ignored folder is written, created or
\* renamed: every document that is new, has a new path or has a new text after
\* the step lies outside the ignored folders.
C28_NeverTouchesIgnored ==
    [][nEvents' = nEvents =>
          \A k \in 1..Len(files') :
              files'[k] \notin Range(files) => ~Ignored(files'[k].path)]_vars

(***************************************************************************)
(* Auto-update switched off                                                 *)
(***************************************************************************)
HandlerOps == {"create", "delete", "rename"}

\* C26: with auto-update off, the create, delete and rename handlers return at
\* once: a step of the user leaves no handler suspended and none ended by an
\* exception, no step of the engine follows, and so the documents and folders
\* change by the user's own actions only.
C26_AutoUpdateOffNoReaction ==
    [][~settings.autoUpdateIndexes =>
          /\ \A i \in 1..Len(tasks') : tasks'[i].op \notin HandlerOps
          /\ threw' \cap HandlerOps = {}
          /\ nEvents' = nEvents => (files' = files /\ folders' = folders)]_vars

\* auto-update is off; a document was created, a folder renamed
C26_Witness ==
    /\ ~settings.autoUpdateIndexes /\ nEvents >= 2
    /\ Exists(files, AlphaDoc) /\ ArchiveDir \in folders /\ SubDir \notin folders

(***************************************************************************)
(* Whole-vault command                                                      *)
(***************************************************************************)
\* the documents a whole-vault invocation reconciles, in order: the one its
\* current pass is on, then those still to come
PlannedBy(t) == <<t.idx>> \o [k \in 1..Len(t.todo) |-> t.todo[k].path]

\* documents written by the invocation once its current step has completed
WrittenAfter(t) == t.count + (IF t.pc = "write" THEN 1 ELSE 0)

\* C22: the whole-vault command plans one pass for every recognized index
\* document, each once, and none when no index document is recognized (then it
\* writes nothing and reports that none was found); its passes run one after the
\* other through the plan, a pass that finds its document up to date writes
\* nothing, and when the last pass has ended the command reports the number of
\* documents it has written, or "all up to date" exactly when it wrote none.
C22_VaultPassCountsWrites ==
    [][/\ CmdVault =>
            IF IndexDocuments = {}
            THEN tasks' = tasks /\ files' = files /\ notice'.kind = "noIndexFiles"
            ELSE /\ files' = files /\ Len(tasks') = Len(tasks) + 1
                 /\ LET u == tasks'[Len(tasks')]
                    IN  /\ u.op = "vault" /\ u.pc = "read" /\ u.count = 0
                        /\ Range(PlannedBy(u)) = IndexDocuments
                        /\ NoDuplicates(PlannedBy(u))
       /\ \A i \in 1..Len(tasks) :
            (tasks[i].op = "vault" /\ PassEnds(i)) =>
                LET t == tasks[i]
                IN  /\ t.pc = "read" => files' = files
                    /\ IF t.todo # <<>>
                       THEN /\ Len(tasks') = Len(tasks)
                            /\ tasks'[i].op = "vault" /\ tasks'[i].pc = "read"
                            /\ PlannedBy(tasks'[i]) = Tail(PlannedBy(t))
                            /\ tasks'[i].count = WrittenAfter(t)
                            /\ notice' = notice
                       ELSE /\ Len(tasks') = Len(tasks) - 1
                            /\ notice' = IF WrittenAfter(t) > 0
                                         THEN [kind |-> "updated", count |-> WrittenAfter(t)]
                                         ELSE [kind |-> "upToDate", count |-> 0]
      ]_vars

\* a whole-vault command has written both index documents and reported two
C22_Witness ==
    /\ notice = [kind |-> "updated", count |-> 2] /\ tasks = <<>>
    /\ \A f \in {ProjectsIndex, SubIndex} : ContentOf(files, f) # ContentOf(origin, f)

C22_UpToDateReached == notice.kind = "upToDate" /\ tasks = <<>>

C22_NoIndexReached == notice.kind = "noIndexFiles" /\ files = origin

(***************************************************************************)
(* Another writer between the read and the write of a pass                  *)
(***************************************************************************)
\* the lines another writer has put into the text
EditsIn(text) == Cardinality({k \in 1..Len(text) : text[k] = "note"})

\* C29 (as stated): when the write of a pass completes, the stored text still
\* holds every line another writer has put into the document outside the
\* Contents section, also those put there after the pass read the document.
C29_ForeignEditNeverLost ==
    [][\A i \in 1..Len(tasks) :
          (PassEnds(i) /\ tasks[i].pc = "write")
              => EditsIn(ContentOf(files', tasks[i].idx)) >= EditsIn(ContentOf(files, tasks[i].idx))]_vars

(***************************************************************************)
(* Bulk auto-creation                                                       *)
(***************************************************************************)
\* the documents of folder d in F that match the identifier pattern
MatchingIn(F, d) ==
    {p \in Range(getIndexFiles(F, settings.indexIdentifier, <<>>)) : ParentOf(p) = d}

\* the vault.create of invocation i of the bulk command succeeds in this step
BulkCreates(i) ==
    /\ i \in 1..Len(tasks) /\ tasks[i].op = "bulk" /\ tasks[i].pc = "creating"
    /\ Stepped(i) /\ Len(files') = Len(files) + 1

\* C24 (as stated): the bulk command creates an index document in a folder only
\* if the folder is not under an ignored folder and holds no other document
\* matching the identifier pattern, so it never adds a second index document
\* to a folder; and run a second time right after it has ended, it creates
\* nothing.
C24_BulkCreatesOnlyMissing ==
    [][/\ \A i \in 1..Len(tasks) :
            BulkCreates(i) =>
                /\ ~Ignored(ParentOf(tasks[i].target))
                /\ MatchingIn(files', ParentOf(tasks[i].target)) \subseteq {tasks[i].target}
       /\ (CmdBulk /\ nEvents = 1 /\ tasks = <<>> /\ notice.kind \in {"created", "noneCreated"})
              => (tasks' = <<>> /\ files' = files /\ notice'.kind = "noneCreated")
      ]_vars

(***************************************************************************)
(* Front-matter merge properties (SpecYaml)                                 *)
(***************************************************************************)
FmLines(text) == SplitBy(text, NL)

\* the line that closes the block opened by the first line, 0 when there is none
FmClose(text) ==
    LET ls == FmLines(text)
        cs == {c \in 2..Len(ls) : ls[c] = <<"---">>}
    IN  IF ls[1] = <<"---">> /\ cs # {} THEN MinOf(cs) ELSE 0

\* the key/value pairs of the block: a line split at its first colon, both trimmed
FmPairs(text) ==
    LET ls == FmLines(text)
    IN  { [key |-> trim(SubSeq(ls[l], 1, indexOf(ls[l], <<":">>))),
           value |-> trim(SubSeq(ls[l], indexOf(ls[l], <<":">>) + 2, Len(ls[l])))] :
             l \in {m \in 2..(FmClose(text) - 1) : indexOf(ls[m], <<":">>) > 0} }

\* the text after the block, the whole text when there is no block
FmBody(text) ==
    LET ls == FmLines(text)
    IN  IF FmClose(text) = 0 THEN text
        ELSE JoinLines(SubSeq(ls, FmClose(text) + 1, Len(ls)))

FmConfigured == {settings.frontmatterAttributes[a].key : a \in 1..Len(settings.frontmatterAttributes)}

\* C25 (as stated): the merge of the configured attributes into a document text
\* yields a block that holds every configured key with its configured value and
\* no other value, in which every other key of the existing block has a value it
\* had, followed by the unchanged body; without configured attributes the text
\* is returned as it is.
C25_MergeKeepsKeysAndBody ==
    Len(patchLog) >= 2 =>
        IF settings.frontmatterAttributes = <<>> THEN T1 = T0
        ELSE /\ FmClose(T1) # 0
             /\ \A a \in 1..Len(settings.frontmatterAttributes) :
                   {pr.value : pr \in {q \in FmPairs(T1) : q.key = settings.frontmatterAttributes[a].key}}
                       = {settings.frontmatterAttributes[a].value}
             /\ \A pr \in FmPairs(T0) :
                   pr.key \notin FmConfigured =>
                       \E q \in FmPairs(T1) : q.key = pr.key /\ q \in FmPairs(T0)
             /\ FmBody(T1) = FmBody(T0)

(***************************************************************************)
(* Termination of the handler cascade                                       *)
(***************************************************************************)
\* an upper bound of the steps an invocation and the handlers it will start
\* still take: a pass is a read and a write; a vault.create starts a create
\* handler (one pass), a vault.rename a rename handler (the timer, two passes);
\* a rename handler of a folder may rename the index and then runs two passes
StepsLeft(t) ==
    CASE t.pc = "write"    -> 1 + 2 * Len(t.todo)
      [] t.pc = "read"     -> 2 + 2 * Len(t.todo)
      [] t.pc = "creating" -> 3 + 2 * Len(t.todo)
      [] t.pc = "renaming" -> 6 + 2 * Len(t.todo)
      [] t.pc = "delay"    -> IF t.isFolder THEN 11 ELSE 5
      [] OTHER             -> 0

RECURSIVE Work(_)
Work(T) == IF T = <<>> THEN 0 ELSE StepsLeft(Head(T)) + Work(Tail(T))

\* C30: every step of the engine, the steps of the handlers that its own
\* creates and renames start included, lowers a bound of the steps still to
\* come, and every suspended invocation waits for a timer or a vault call: after
\* an external event only finitely many handler steps follow (a content write
\* starts no handler, a handler of an engine-made change creates and renames
\* nothing), then no invocation is left.
C30_CascadeQuiesces ==
    [][/\ nEvents' = nEvents => Work(tasks') < Work(tasks)
       /\ \A i \in 1..Len(tasks') :
             tasks'[i].pc \in {"delay", "creating", "renaming", "read", "write"}
       /\ \A i \in 1..Len(tasks) :
             (Stepped(i) /\ tasks[i].pc = "write") => Len(tasks') <= Len(tasks)
       /\ \A i \in 1..Len(tasks') :
             (nEvents' = nEvents /\ i > Len(tasks)) =>
                 /\ tasks'[i].pc \in {"delay", "read"}
                 /\ ~tasks'[i].isFolder
      ]_vars

\* the folder Projects/Archive was created, the engine created its index document,
\* the handler of that create event reconciled it, and nothing is left suspended
C30_Witness ==
    /\ nEvents = 1 /\ tasks = <<>> /\ threw = {}
    /\ ArchiveDir \in folders
    /\ Exists(files, ArchiveIndex) /\ HasRegion(ContentOf(files, ArchiveIndex))

\* the folder Projects/Sub was renamed, the engine renamed its index document and
\* the handler of that rename event has ended
C30_RenameCascadeEnded ==
    /\ nEvents = 1 /\ tasks = <<>> /\ threw = {}
    /\ ArchiveDir \in folders /\ SubDir \notin folders
    /\ Exists(files, ArchiveIndex)

====
